---- MODULE Spec2Model ----
(***************************************************************************)
(* Lineu: error webhook -> analysis agent -> Linear ticket.                *)
(*                                                                         *)
(* The model covers the SQLite job store (src/src/db.ts), the worker loop  *)
(* and the ingestion and dashboard handlers that write to the store.       *)
(* The repository holds two revisions of the worker and of the server:     *)
(*   rev 1: src/src/worker.ts + src/src/server.ts                          *)
(*   rev 2: src/unnamed/part_006 (worker with dry-run and the atomic       *)
(*          completion) + src/unnamed/part_007 (server with the duplicate  *)
(*          check) + src/src/dashboard/routes.ts (create-issue)            *)
(* Init picks the revision; every property is checked for both.            *)
(*                                                                         *)
(* Node runs one callback at a time, so a handler is atomic from one       *)
(* await to the next: every action below is one such piece.  An            *)
(* invocation of processJobs is identified by the job it holds.            *)
(*                                                                         *)
(* SessionSpec follows one call of ClaudeService.analyze                   *)
(* (src/src/services/claude.ts) callback by callback, with the worker      *)
(* around it; TextSpec applies extractJsonFromText to texts of its own.    *)
(***************************************************************************)
EXTENDS Integers, Sequences, FiniteSets, Bags, TLC

\* ---------------------------------------------------------------- bounds
MaxJobs == 2
MaxTime == 1
MaxTickets == 2
MaxRequests == 1
MaxRows == 3
\* deduplication.windowDays, in clock ticks
Window == 1

Fingerprints == {"f1", "f2"}
\* ids the jobs table can hand out within the bounds
RowIds == 1..(MaxJobs + MaxRows)
Revs == {1, 2}

\* SQL NULL for ticket columns, analysis and timestamps
NoTicket == 0
NoTime == -1
NoError == ""

Terminal == {"completed", "failed", "duplicate"}
Active == {"pending", "processing"}

VARIABLES
  rev,          \* which revision of worker/server is running
  dryRun,       \* WorkerOptions.dryRun (rev 2)
  timeout,      \* config.claude.timeout (0 = no timer armed)
  now,          \* wall clock, in ticks
  jobs,         \* table jobs: row id = index
  fingerprints, \* table fingerprints: hash -> row, issue = NoTicket when absent
  tickets,      \* issues created in Linear: ticket id = index, value = the job it was created for
  stage,        \* per job: the await its processJobs invocation is suspended at
  dreq,         \* bag of jobs with a dashboard create-issue request awaiting Linear
  completedAt,  \* history: per fingerprint, when a job of it was last completed with a ticket
  claims,       \* history: how many times claimNextJob returned each row
  thrown,       \* history: (job, error text) of every exception caught by processJob
  \* one call of ClaudeService.analyze (src/src/services/claude.ts)
  sjob,         \* the job analyze was called for (0 = analyze not called)
  payload,      \* JSON.stringify(payload), as the set of phrases it holds
  logs,         \* the two log files have been opened
  logFiles,     \* per log file: how often end() was called, and whether a write came after it
  proc,         \* the agent process: none, running, failed (not spawned), killed, closed
  timer,        \* the manual timeout: none, armed, fired, cleared
  exitCode,     \* code handed to the close callback
  promise,      \* the promise analyze returned
  agent,        \* what the agent has still to write to stdout
  fullOutput,   \* let fullOutput
  lastResult,   \* let lastResult
  decoded,      \* history: every line JSON.parse accepted, in order
  \* one call of extractJsonFromText on a text of its own
  text,
  extracted,
  \* POST /webhook
  resp,         \* the last request and what the handler answered
  accepted,     \* history: how many requests passed the validation
  returned,     \* what claimNextJob returned when last called on its own (0 = nothing)
  \* generateFingerprint on payloads p and q
  hp,           \* payload p
  hq,           \* payload q: p after edits that leave it equivalent
  edits,        \* how many edits lead from p to q
  calls,        \* how many times generateFingerprint was called on each
  fpP,          \* generateFingerprint(p), the last call
  fpQ,          \* generateFingerprint(q), the last call
  fpPrev,       \* generateFingerprint(p), the call before
  \* startWorker
  running       \* let running: FALSE once stop() was called

\* the variables of the analysis session and of the extraction
avars == <<sjob, payload, logs, logFiles, proc, timer, exitCode, promise, agent, fullOutput, lastResult, decoded,
           text, extracted>>
\* of the webhook handler, and of claimNextJob called on its own
ivars == <<resp, accepted, returned>>
\* of generateFingerprint
fvars == <<hp, hq, edits, calls, fpP, fpQ, fpPrev>>

\* of the worker returned by startWorker
wvars == <<running>>

\* the variables outside the job store and the drains
svars == <<avars, ivars, fvars, wvars>>

vars == <<rev, dryRun, timeout, now, jobs, fingerprints, tickets, stage, dreq, completedAt, claims, thrown,
          sjob, payload, logs, logFiles, proc, timer, exitCode, promise, agent, fullOutput, lastResult,
          decoded, text, extracted, resp, accepted, returned, hp, hq, edits, calls, fpP, fpQ, fpPrev, running>>

\* ------------------------------------------------------------ job store
JobIds(js) == 1..Len(js)

Upd(js, id, row) == [js EXCEPT ![id] = row]

Min(S) == CHOOSE x \in S : \A y \in S : x <= y

\* INSERT INTO jobs (payload, fingerprint): status defaults to 'pending'
insertJobStmtProcessing(js, f, ngf, t) ==
  Append(js, [fingerprint |-> f, status |-> "processing", error |-> NoError,
              analysis |-> 0, linear_issue_id |-> NoTicket,
              linear_identifier |-> NoTicket, created_at |-> t,
              processed_at |-> FALSE, nerdGraphFailed |-> ngf])
insertJobStmt(js, f, ngf, t) ==
  Append(js, [fingerprint |-> f, status |-> "pending", error |-> NoError,
              analysis |-> 0, linear_issue_id |-> NoTicket,
              linear_identifier |-> NoTicket, created_at |-> t,
              processed_at |-> FALSE, nerdGraphFailed |-> ngf])

\* INSERT ... 'duplicate', linear_identifier, processed_at = CURRENT_TIMESTAMP
insertDuplicateJobStmtNoTime(js, f, ident, t) ==
  Append(js, [fingerprint |-> f, status |-> "duplicate", error |-> NoError,
              analysis |-> 0, linear_issue_id |-> NoTicket,
              linear_identifier |-> ident, created_at |-> t,
              processed_at |-> FALSE, nerdGraphFailed |-> FALSE])
insertDuplicateJobStmt(js, f, ident, t) ==
  Append(js, [fingerprint |-> f, status |-> "duplicate", error |-> NoError,
              analysis |-> 0, linear_issue_id |-> NoTicket,
              linear_identifier |-> ident, created_at |-> t,
              processed_at |-> TRUE, nerdGraphFailed |-> FALSE])

\* rows the sub-select of claimNextJobStmt can pick: 'pending', oldest
\* created_at; SQL leaves the order of equal timestamps open
ClaimableBroken(js) ==
  {i \in JobIds(js) : js[i].status \in Active}
Claimable(js) ==
  {i \in JobIds(js) : /\ js[i].status = "pending"
                      /\ \A k \in JobIds(js) :
                           js[k].status = "pending" => js[i].created_at <= js[k].created_at}

\* UPDATE jobs SET status = 'processing' WHERE id = (...)
claimNextJobStmtAll(js, id) ==
  [i \in JobIds(js) |-> IF js[i].status = "pending" THEN [js[i] EXCEPT !.status = "processing"] ELSE js[i]]
claimNextJobStmt(js, id) == Upd(js, id, [js[id] EXCEPT !.status = "processing"])

\* processed_at = CURRENT_TIMESTAMP in the four statements below: no
\* statement that decides anything reads it back, so the rows record only
\* that it is set
markCompletedStmt(js, id, issue, analysis) ==
  Upd(js, id, [js[id] EXCEPT !.status = "completed", !.linear_issue_id = issue,
                             !.linear_identifier = issue, !.analysis = analysis,
                             !.processed_at = TRUE])

markCompletedDryRunStmt(js, id, analysis) ==
  Upd(js, id, [js[id] EXCEPT !.status = "completed", !.analysis = analysis,
                             !.processed_at = TRUE])

markFailedStmt(js, id, err) ==
  Upd(js, id, [js[id] EXCEPT !.status = "failed", !.error = err, !.processed_at = TRUE])

markDuplicateStmt(js, id, ident) ==
  Upd(js, id, [js[id] EXCEPT !.status = "duplicate", !.linear_identifier = ident,
                             !.processed_at = TRUE])

\* created_at > datetime('now', '-N days')
InWindow(created, t) == created > t - Window

\* SELECT linear_identifier FROM fingerprints WHERE hash = ? AND created_at > ...
findFingerprintStmtOlder(fps, h, t) ==
  IF fps[h].issue # NoTicket /\ ~InWindow(fps[h].created_at, t)
  THEN fps[h].issue ELSE NoTicket
findFingerprintStmt(fps, h, t) ==
  IF fps[h].issue # NoTicket /\ InWindow(fps[h].created_at, t)
  THEN fps[h].issue ELSE NoTicket

\* SELECT id FROM jobs WHERE fingerprint = ? AND status IN ('pending','processing')
\*   AND created_at > ... ORDER BY created_at ASC LIMIT 1   (0 = no row)
findPendingJobByFingerprintStmtFailedToo(js, f, t) ==
  LET c == {i \in JobIds(js) : /\ js[i].fingerprint = f
                               /\ js[i].status \in Active \cup {"failed"}
                               /\ InWindow(js[i].created_at, t)}
  IN IF c = {} THEN 0 ELSE Min(c)
findPendingJobByFingerprintStmt(js, f, t) ==
  LET c == {i \in JobIds(js) : /\ js[i].fingerprint = f
                               /\ js[i].status \in Active
                               /\ InWindow(js[i].created_at, t)}
  IN IF c = {} THEN 0
     ELSE CHOOSE i \in c : \A k \in c :
            \/ js[i].created_at < js[k].created_at
            \/ (js[i].created_at = js[k].created_at /\ i <= k)

\* INSERT OR IGNORE INTO fingerprints: an existing row is left as it is
insertFingerprintStmt(fps, h, issue, t) ==
  IF fps[h].issue # NoTicket THEN fps
  ELSE [fps EXCEPT ![h] = [issue |-> issue, created_at |-> t]]

\* db.transaction: ledger row and job row written together
completeJobWithFingerprintTx(js, fps, id, h, issue, analysis, t) ==
  [jobs |-> markCompletedStmt(js, id, issue, analysis),
   fingerprints |-> insertFingerprintStmt(fps, h, issue, t)]

\* db.transaction: ledger first, then pending/processing rows, else 'pending'
insertJobIfNotDuplicateTx(js, fps, f, t) ==
  LET completed == findFingerprintStmt(fps, f, t)
      pending == findPendingJobByFingerprintStmt(js, f, t)
  IN IF completed # NoTicket THEN insertDuplicateJobStmt(js, f, completed, t)
     ELSE IF pending # 0 THEN insertDuplicateJobStmt(js, f, NoTicket, t)
     ELSE insertJobStmt(js, f, FALSE, t)

\* findExistingByFingerprint: "completed", "job" or "none"
findExistingByFingerprint(js, fps, h, t) ==
  IF findFingerprintStmt(fps, h, t) # NoTicket THEN "completed"
  ELSE IF findPendingJobByFingerprintStmt(js, h, t) # 0 THEN "job"
  ELSE "none"

\* ------------------------------------------------- agent output (claude.ts)
\* bounds of the agent's output
MaxLines == 2
MaxTokens == 6
\* length of the texts the brace scan is tried on
MaxScan == 4

Null == [type |-> "null"]

\* A text is a sequence of tokens: prose, the opening fence ```json, a bare
\* fence ```, or a JSON object.  Of an object the extraction reads only
\*   parses    JSON.parse accepts it
\*   balanced  its braces close
\*   category, summary  the fields it holds
\*   opening   which of the three opening patterns it starts with (0 = none)
Tok(t) ==
  [tok |-> t, id |-> t, parses |-> FALSE, balanced |-> FALSE, category |-> FALSE,
   summary |-> FALSE, opening |-> 0]
Body(id, parses, balanced, category, summary, opening) ==
  [tok |-> "body", id |-> id, parses |-> parses, balanced |-> balanced, category |-> category,
   summary |-> summary, opening |-> opening]

Prose == Tok("prose")
FenceOpen == Tok("fence json")
FenceClose == Tok("fence")

\* {"category":"bug","summary":"..."}
BodyValid == Body("valid", TRUE, TRUE, TRUE, TRUE, 2)
\* the same fields printed over several lines: {\n  "category": ...
BodyPretty == Body("pretty", TRUE, TRUE, TRUE, TRUE, 1)
\* {"category":"bug"}
BodyCategoryOnly == Body("categoryOnly", TRUE, TRUE, TRUE, FALSE, 2)
\* { invalid json }
BodyInvalid == Body("invalid", FALSE, TRUE, FALSE, FALSE, 0)
\* { "category": "bug", "summ       (cut short: the braces never close)
BodyCut == Body("cut", FALSE, FALSE, FALSE, FALSE, 3)
\* an object inside a JSON string: every quote escaped, so neither an
\* opening pattern nor JSON.parse matches it
BodyEscaped == Body("escaped", FALSE, TRUE, FALSE, FALSE, 0)
\* {"summary":"...","category":"bug"}: both fields, category not first
BodySummaryFirst == Body("summaryFirst", TRUE, TRUE, TRUE, TRUE, 0)
\* {"name":"not an analysis"}
BodyOther == Body("other", TRUE, TRUE, FALSE, FALSE, 0)
\* {"category": bug}: the braces close, JSON.parse rejects it
BodyBroken == Body("broken", FALSE, TRUE, FALSE, FALSE, 2)

Ok(v) == [ok |-> TRUE, value |-> v, error |-> ""]
Fail(e) == [ok |-> FALSE, value |-> Null, error |-> e]

NoResultFound == "No valid JSON analysis found in output"

\* the places a fence closes: the three backticks of ``` or of ```json
HasBackticks(t) == t.tok \in {"fence", "fence json"}

\* text.matchAll(/```json\s*([\s\S]*?)```/g): the captures, in order; a
\* match starts at the first ```json at or after place i and ends at the
\* next three backticks, and the search goes on after them
RECURSIVE matchAll(_, _)
matchAll(txt, i) ==
  LET opens == {k \in i..Len(txt) : txt[k].tok = "fence json"}
      o == Min(opens)
      closes == {k \in (o + 1)..Len(txt) : HasBackticks(txt[k])}
      c == Min(closes)
  IN IF opens = {} THEN <<>>
     ELSE IF closes = {} THEN <<>>
     ELSE <<SubSeq(txt, o + 1, c - 1)>> \o matchAll(txt, c + 1)

\* JSON.parse(match[1].trim()): the capture must be one object and nothing else
parseCapture(capture) ==
  IF Len(capture) = 1 /\ capture[1].tok = "body" /\ capture[1].parses
  THEN Ok(capture[1]) ELSE Fail("SyntaxError")

\* extractBalancedJson(text, startIdx): counts braces from startIdx on and
\* parses the slice up to the brace that closes the first
extractBalancedJson(txt, startIdx) ==
  LET b == txt[startIdx]
  IN IF ~b.balanced THEN Fail("Unbalanced JSON in output")
     ELSE IF ~b.parses THEN Fail("SyntaxError")
     ELSE Ok(b)

\* text.indexOf(pattern): the first object that starts with the pattern,
\* inside a fence or not (0 = not found)
indexOf(txt, pattern) ==
  LET at == {k \in 1..Len(txt) : txt[k].tok = "body" /\ txt[k].opening = pattern}
  IN IF at = {} THEN 0 ELSE Min(at)

\* for (const pattern of patterns) { ... try { return extractBalancedJson } catch { continue } }
RECURSIVE rawPatternsNoCatch(_, _)
rawPatternsNoCatch(txt, pattern) ==
  IF pattern > 3 THEN Fail(NoResultFound)
  ELSE IF indexOf(txt, pattern) # 0
       THEN extractBalancedJson(txt, indexOf(txt, pattern))
       ELSE rawPatternsNoCatch(txt, pattern + 1)

RECURSIVE rawPatterns(_, _)
rawPatterns(txt, pattern) ==
  IF pattern > 3 THEN Fail(NoResultFound)
  ELSE IF indexOf(txt, pattern) # 0 /\ extractBalancedJson(txt, indexOf(txt, pattern)).ok
       THEN extractBalancedJson(txt, indexOf(txt, pattern))
       ELSE rawPatterns(txt, pattern + 1)

\* the fenced blocks of extractJsonFromText: the first capture that parses
\* and has both fields
AcceptedCategoryOnly(r) == r.ok /\ r.value.category
Accepted(r) == r.ok /\ r.value.category /\ r.value.summary

\* only the first fenced block is looked at
fencedBlocksFirstOnly(captures) ==
  IF captures # <<>> /\ Accepted(parseCapture(captures[1]))
  THEN parseCapture(captures[1]) ELSE Fail("none")

fencedBlocks(captures) ==
  LET good == {k \in 1..Len(captures) : Accepted(parseCapture(captures[k]))}
  IN IF good = {} THEN Fail("none") ELSE parseCapture(captures[Min(good)])

extractJsonFromText(txt) ==
  IF fencedBlocks(matchAll(txt, 1)).ok
  THEN fencedBlocks(matchAll(txt, 1))
  ELSE rawPatterns(txt, 1)

\* a line the agent writes.  json: JSON.parse accepts the whole line;
\* type: event.type; result: event.result, an object, a string or absent
Absent == [kind |-> "none", body |-> Prose, text |-> <<>>]
Obj(b) == [kind |-> "object", body |-> b, text |-> <<>>]
Str(t) == [kind |-> "string", body |-> Prose, text |-> t]

PlainLine == [json |-> FALSE, type |-> "", result |-> Absent]
Event(type, result) == [json |-> TRUE, type |-> type, result |-> result]

\* result texts an agent ends with
PayloadTexts ==
  { <<>>,
    <<Prose>>,
    <<Prose, FenceOpen, BodyValid, FenceClose>>,
    <<FenceOpen, BodyInvalid, FenceClose, FenceOpen, BodyPretty, FenceClose>>,
    <<BodyCategoryOnly>>,
    <<BodyCut>> }

Lines ==
  {PlainLine, Event("assistant", Absent)}
    \cup {Event("result", Obj(b)) : b \in {BodyValid, BodyCategoryOnly}}
    \cup {Event("result", Str(t)) : t \in PayloadTexts}

\* stdout is a character stream: a line is cut here into two parts, and
\* every line ends with "\n" (part 0)
Unit(l, part) == [line |-> l, part |-> part]
Newline == Unit(PlainLine, 0)

RECURSIVE Written(_)
Written(ls) ==
  IF ls = <<>> THEN <<>>
  ELSE <<Unit(Head(ls), 1), Unit(Head(ls), 2), Newline>> \o Written(Tail(ls))

\* the sequences over S of length up to n
SeqsUpTo(S, n) == UNION {[1..k -> S] : k \in 0..n}

\* the same lines, the last one without its "\n"
Unterminated(ls) == SubSeq(Written(ls), 1, Len(Written(ls)) - 1)

\* what an agent may write: up to MaxLines lines, the last one with or
\* without its line terminator
Streams ==
  {Written(ls) : ls \in SeqsUpTo(Lines, MaxLines)}
    \cup {Unterminated(ls) : ls \in SeqsUpTo(Lines, MaxLines) \ {<<>>}}

\* chunk.split('\n').filter(l => l.trim())
RECURSIVE split(_)
split(chunk) ==
  LET ends == {k \in 1..Len(chunk) : chunk[k].part = 0}
      k == Min(ends)
  IN IF chunk = <<>> THEN <<>>
     ELSE IF ends = {} THEN <<chunk>>
     ELSE (IF k = 1 THEN <<>> ELSE <<SubSeq(chunk, 1, k - 1)>>)
            \o split(SubSeq(chunk, k + 1, Len(chunk)))

\* JSON.parse(line): only a whole line of JSON parses
parseLine(piece) ==
  IF /\ Len(piece) = 2
     /\ piece[1].part = 1 /\ piece[2].part = 2
     /\ piece[1].line = piece[2].line
     /\ piece[1].line.json
  THEN Ok(piece[1].line) ELSE Fail("SyntaxError")

\* try { const event = JSON.parse(line); ... } catch { /* Not JSON, ignore */ }
RECURSIVE parsed(_)
parsed(pieces) ==
  IF pieces = <<>> THEN <<>>
  ELSE (IF parseLine(Head(pieces)).ok THEN <<parseLine(Head(pieces)).value>> ELSE <<>>)
         \o parsed(Tail(pieces))

decodeChunk(chunk) == parsed(split(chunk))

\* else if (event.type === 'result') { lastResult = event; }
RECURSIVE trackFirst(_, _)
trackFirst(last, events) ==
  IF events = <<>> THEN last
  ELSE trackFirst(IF Head(events).type = "result" /\ last = Null THEN Head(events) ELSE last,
                  Tail(events))

RECURSIVE track(_, _)
track(last, events) ==
  IF events = <<>> THEN last
  ELSE track(IF Head(events).type = "result" THEN Head(events) ELSE last, Tail(events))

\* a string as it stands inside a line of JSON: the quotes of an object in
\* it are escaped, the backticks of a fence are not
RECURSIVE Escaped(_)
Escaped(t) ==
  IF t = <<>> THEN <<>>
  ELSE <<IF Head(t).tok = "body" THEN BodyEscaped ELSE Head(t)>> \o Escaped(Tail(t))

\* a line as it stands in fullOutput
Printed(l) ==
  IF ~l.json THEN <<Prose>>
  ELSE IF l.result.kind = "object" THEN <<l.result.body>>
  ELSE IF l.result.kind = "string" THEN Escaped(l.result.text)
  ELSE <<Prose>>

\* fullOutput, read as a text by extractJsonFromText
RECURSIVE Transcript(_)
Transcript(out) ==
  IF out = <<>> THEN <<>>
  ELSE IF Len(out) >= 2 /\ out[1].part = 1 /\ out[2].part = 2 /\ out[1].line = out[2].line
       THEN Printed(out[1].line) \o Transcript(Tail(Tail(out)))
  ELSE IF out[1].part = 0 THEN Transcript(Tail(out))
  ELSE <<Prose>> \o Transcript(Tail(out))

\* if (result.result): an empty string is falsy
Truthy(content) == content.kind = "object" \/ (content.kind = "string" /\ content.text # <<>>)

\* parseStreamOutput(fullOutput, lastResult)
parseStreamOutput(out, last) ==
  IF last # Null /\ Truthy(last.result)
  THEN IF last.result.kind = "string"
       THEN extractJsonFromText(last.result.text)
       ELSE IF last.result.body.category /\ last.result.body.summary
            THEN Ok(last.result.body)
            ELSE extractJsonFromText(Transcript(out))
  ELSE extractJsonFromText(Transcript(out))

\* ------------------------------------------------------ analyze (claude.ts)
INJECTION_PATTERNS ==
  {"ignore previous instructions", "ignore the above", "disregard prior", "new instructions:",
   "system: you are", "run command", "execute following", "use the bash tool", "curl | bash",
   "wget | sh"}

\* serialized payloads, by the phrases they hold
Payloads == {{"NoMethodError"}, {"NoMethodError", "ignore the above"}, {"wget | sh"}}

containsPromptInjectionFirst(p) == "ignore previous instructions" \in p
containsPromptInjection(p) == \E pattern \in INJECTION_PATTERNS : pattern \in p

Suspicious == "Payload contains suspicious content"
TimedOut == "Claude timed out"
ExitError == "Claude exited with code 1"
SpawnFailed == "Failed to spawn claude"
ParseFailed == "Failed to parse Claude output"

NoCode == -1

NoPromise == [state |-> "none", value |-> Null, error |-> "", cause |-> "", output |-> <<>>]
Pending == [NoPromise EXCEPT !.state = "pending"]
Resolved(v) == [NoPromise EXCEPT !.state = "resolved", !.value = v]
Rejected(e, cause, out) ==
  [NoPromise EXCEPT !.state = "rejected", !.error = e, !.cause = cause, !.output = out]

\* resolve and reject of a promise that is already settled do nothing
settle(pr, to) == IF pr.state = "pending" THEN to ELSE pr

\* the timeout callback: proc.kill('SIGTERM'); reject(...)
timeoutCallbackKillOnly(pr) == pr
timeoutCallback(pr) == settle(pr, Rejected(TimedOut, "", <<>>))

\* proc.on('error')
errorCallback(pr) == settle(pr, Rejected(SpawnFailed, "", <<>>))

\* proc.on('close'): the exit code first, then the extraction
closeCallbackResultFirst(pr, code, out, last) ==
  LET r == parseStreamOutput(out, last)
  IN settle(pr, IF r.ok THEN Resolved(r.value)
                ELSE IF code # 0 THEN Rejected(ExitError, "", out)
                ELSE Rejected(ParseFailed, r.error, out))
closeCallback(pr, code, out, last) ==
  LET r == parseStreamOutput(out, last)
  IN settle(pr, IF code # 0 THEN Rejected(ExitError, "", out)
                ELSE IF r.ok THEN Resolved(r.value)
                ELSE Rejected(ParseFailed, r.error, out))

\* logStream (the raw transcript) and sessionLog (the structured events)
LogFiles == {"logStream", "sessionLog"}

Unopened == [f \in LogFiles |-> [ends |-> 0, late |-> FALSE]]

\* stream.write(...): a write to a stream that end() was called on comes late
write(files, f) == [files EXCEPT ![f].late = @ \/ files[f].ends > 0]

\* stream.end()
end(files, f) == [files EXCEPT ![f].ends = @ + 1]

\* logEvent(...); logStream.write(...); logStream.end(); sessionLog.end():
\* the four lines the timeout, error and close callbacks start with
logAndEnd(files) ==
  end(end(write(write(files, "sessionLog"), "logStream"), "logStream"), "sessionLog")

\* the data callback: logStream.write(chunk), and logEvent for the
\* assistant and user events among the decoded lines
logChunk(files, events) ==
  IF \E k \in 1..Len(events) : events[k].type \in {"assistant", "user"}
  THEN write(write(files, "logStream"), "sessionLog")
  ELSE write(files, "logStream")

NoSession ==
  /\ sjob = 0
  /\ payload = {}
  /\ logs = FALSE
  /\ logFiles = Unopened
  /\ proc = "none"
  /\ timer = "none"
  /\ exitCode = NoCode
  /\ promise = NoPromise
  /\ agent = <<>>
  /\ fullOutput = <<>>
  /\ lastResult = Null
  /\ decoded = <<>>

NoText ==
  /\ text = <<>>
  /\ extracted = Null

\* ------------------------------------------- fingerprint (lib/fingerprint.ts)
\* frames removeDynamicFields may nest before the engine throws RangeError
MaxStack == 4
\* edits that lead from one payload to an equivalent one
MaxEdits == 1

\* A payload is an object graph: a heap of nodes (objects and arrays) and a
\* root value.  A value is a primitive, written as JSON writes it, or a
\* reference to a node; two references to one node are the same object.
Prim(t, v) == [t |-> t, v |-> v, ref |-> 0]
Ref(a) == [t |-> "ref", v |-> "", ref |-> a]
Undefined == Prim("undefined", "")
JsonNull == Prim("null", "null")
StrVal(s) == Prim("str", s)
NumVal(n) == Prim("num", n)

Entry(k, val) == [key |-> k, val |-> val]
ObjNode(entries) == [kind |-> "obj", entries |-> entries]
ArrNode(items) == [kind |-> "arr", entries |-> items]
Payload(heap, root) == [heap |-> heap, root |-> root]

\* a value with no reference left in it: what removeDynamicFields returns
Leaf(val) == [kind |-> val.t, v |-> val.v, items |-> <<>>]
Tree(kind, items) == [kind |-> kind, v |-> "", items |-> items]
Circular == Leaf(StrVal("[circular]"))

DYNAMIC_FIELDS ==
  {"timestamp", "occurredAt", "createdAt", "updatedAt", "time", "date",
   "requestId", "traceId", "spanId", "correlationId",
   "id", "uuid", "eventId", "event_id", "issueId"}

\* the result of a call: a value, the WeakSet as the call leaves it, or a
\* throw (RangeError: Maximum call stack size exceeded)
Cleaned(out, seen) == [out |-> out, seen |-> seen, thrown |-> FALSE]
Overflow(seen) == [out |-> Circular, seen |-> seen, thrown |-> TRUE]

\* seen.has(obj)
hasSeenNever(seen, a) == FALSE
hasSeen(seen, a) == a \in seen

RECURSIVE removeDynamicFields(_, _, _, _)
RECURSIVE each(_, _, _, _, _)
\* for..of / map over the entries of a node, one after the other
each(heap, kind, entries, seen, depth) ==
  IF entries = <<>> THEN Cleaned(<<>>, seen)
  ELSE IF kind = "obj" /\ Head(entries).key \in DYNAMIC_FIELDS
  THEN each(heap, kind, Tail(entries), seen, depth)
  ELSE LET first == removeDynamicFields(heap, Head(entries).val, seen, depth + 1)
           rest == each(heap, kind, Tail(entries), first.seen, depth)
       IN IF first.thrown THEN Overflow(first.seen)
          ELSE IF rest.thrown THEN Overflow(rest.seen)
          ELSE Cleaned(<<Entry(Head(entries).key, first.out)>> \o rest.out, rest.seen)

\* removeDynamicFields(obj, seen): seen is one WeakSet for the whole walk,
\* and nothing is ever taken out of it
removeDynamicFields(heap, obj, seen, depth) ==
  IF depth > MaxStack THEN Overflow(seen)
  ELSE IF obj.t # "ref" THEN Cleaned(Leaf(obj), seen)
  ELSE IF hasSeen(seen, obj.ref) THEN Cleaned(Circular, seen)
  ELSE LET node == heap[obj.ref]
           walked == each(heap, node.kind, node.entries, seen \cup {obj.ref}, depth)
       IN IF walked.thrown THEN walked
          ELSE Cleaned(Tree(node.kind, walked.out), walked.seen)

\* Array.prototype.sort() on keys: by UTF-16 code units
KeyOrder == <<"a", "b", "error", "fingerprint", "id", "timestamp">>

\* the entries listed by key, in the order of KeyOrder from place i on
RECURSIVE sorted(_, _)
sorted(items, i) ==
  IF i > Len(KeyOrder) THEN <<>>
  ELSE SelectSeq(items, LAMBDA e : e.key = KeyOrder[i]) \o sorted(items, i + 1)

RECURSIVE sortObjectKeys(_)
RECURSIVE sortEach(_)
sortEach(items) ==
  IF items = <<>> THEN <<>>
  ELSE <<Entry(Head(items).key, sortObjectKeys(Head(items).val))>> \o sortEach(Tail(items))

\* sortObjectKeys(obj): arrays keep their order
sortObjectKeys(obj) ==
  IF obj.kind = "obj" THEN Tree("obj", sorted(sortEach(obj.items), 1))
  ELSE IF obj.kind = "arr" THEN Tree("arr", sortEach(obj.items))
  ELSE obj

\* JSON.stringify(sorted): the text, token by token
Punct(c) == <<"punct", c>>
RECURSIVE stringify(_)
RECURSIVE members(_, _)
members(kind, items) ==
  IF items = <<>> THEN <<>>
  ELSE (IF kind = "obj" THEN <<<<"key", Head(items).key>>, Punct(":")>> ELSE <<>>)
         \o stringify(Head(items).val)
         \o (IF Len(items) > 1 THEN <<Punct(",")>> ELSE <<>>)
         \o members(kind, Tail(items))

stringify(obj) ==
  IF obj.kind = "obj" THEN <<Punct("{")>> \o members("obj", obj.items) \o <<Punct("}")>>
  ELSE IF obj.kind = "arr" THEN <<Punct("[")>> \o members("arr", obj.items) \o <<Punct("]")>>
  ELSE <<<<obj.kind, obj.v>>>>

\* A fingerprint column holds a string: one the caller gave, or the first
\* 32 hex digits of SHA-256 of a text.  The hash is taken to be free of
\* collisions, and a caller's string never to be the digest of a text.
External(s) == [text |-> s, sha256 |-> <<>>]
Digest(json) == [text |-> "", sha256 |-> json]

Returned(fp) == [ok |-> TRUE, fingerprint |-> fp]
RangeError == [ok |-> FALSE, fingerprint |-> External("")]

\* generateFingerprint(payload)
generateFingerprint(pl) ==
  LET stable == removeDynamicFields(pl.heap, pl.root, {}, 1)
  IN IF stable.thrown THEN RangeError
     ELSE Returned(Digest(stringify(sortObjectKeys(stable.out))))

\* ------------------------------------------------- POST /webhook, in full
\* payload[key] on the parsed body: undefined when the body is no object or
\* has no such key
Get(body, key) ==
  IF body.root.t # "ref" THEN Undefined
  ELSE LET es == body.heap[body.root.ref].entries
           at == {i \in 1..Len(es) : es[i].key = key}
       IN IF body.heap[body.root.ref].kind # "obj" \/ at = {} THEN Undefined
          ELSE es[Min(at)].val

\* String.prototype.trim(), on the strings requests are made of here
trim(s) ==
  CASE s = "   " -> ""
    [] s = " padded " -> "padded"
    [] OTHER -> s

\* isValidExternalFingerprint(value)
isValidExternalFingerprint(value) ==
  IF value.t \in {"null", "undefined"} THEN FALSE
  ELSE IF value.t = "num" /\ value.v = "0" THEN FALSE
  ELSE IF value.t # "str" THEN FALSE
  ELSE IF trim(value.v) = "" THEN FALSE
  ELSE TRUE

\* !payload
Falsy(val) ==
  \/ val.t \in {"undefined", "null"}
  \/ (val.t = "num" /\ val.v = "0")
  \/ (val.t = "str" /\ val.v = "")
  \/ (val.t = "bool" /\ val.v = "false")

\* typeof payload: arrays and null are 'object'
typeof(val) ==
  IF val.t \in {"ref", "null"} THEN "object"
  ELSE IF val.t = "str" THEN "string"
  ELSE IF val.t = "num" THEN "number"
  ELSE IF val.t = "bool" THEN "boolean"
  ELSE "undefined"

\* Object.keys(payload).length: own keys, of an array its indices
keysLength(body) ==
  IF body.root.t = "ref" THEN Len(body.heap[body.root.ref].entries) ELSE 0

\* if (!payload || typeof payload !== 'object' || Object.keys(payload).length === 0)
invalidBodyNoKeysTest(body) ==
  Falsy(body.root) \/ typeof(body.root) # "object"
invalidBody(body) ==
  Falsy(body.root) \/ typeof(body.root) # "object" \/ keysLength(body) = 0

\* the fingerprint the handler settles on.  rev 1 (server.ts:89) computes it
\* always; rev 2 (part_007:23-27) takes payload.fingerprint when it is valid
resolveFingerprint(body) ==
  IF rev = 2 /\ isValidExternalFingerprint(Get(body, "fingerprint"))
  THEN External(Get(body, "fingerprint").v)
  ELSE generateFingerprint(body).fingerprint

\* what the handler answers
NoResponse ==
  [request |-> Payload(<<>>, Undefined), code |-> 0, status |-> "", jobId |-> 0,
   fingerprint |-> External(""), existingJobId |-> 0, existingIssue |-> NoTicket]
BadRequest(body) == [NoResponse EXCEPT !.request = body, !.code = 400, !.status = "error"]
Queued(body, id, f) ==
  [NoResponse EXCEPT !.request = body, !.code = 202, !.status = "queued", !.jobId = id,
                     !.fingerprint = f]
DuplicateOfIssue(body, f, ident) ==
  [NoResponse EXCEPT !.request = body, !.code = 200, !.status = "duplicate", !.fingerprint = f,
                     !.existingIssue = ident]
DuplicateOfJob(body, f, id) ==
  [NoResponse EXCEPT !.request = body, !.code = 200, !.status = "duplicate", !.fingerprint = f,
                     !.existingJobId = id]

NoDigest == [ok |-> FALSE, fingerprint |-> External("not called")]

NoCall == -1

NoIngest ==
  /\ resp = NoResponse
  /\ accepted = 0
  /\ returned = NoCall

NoPayload ==
  /\ hp = Payload(<<>>, Undefined)
  /\ hq = Payload(<<>>, Undefined)
  /\ edits = 0
  /\ calls = 0
  /\ fpP = NoDigest
  /\ fpQ = NoDigest
  /\ fpPrev = NoDigest

\* ---------------------------------------------------------------- Init
InitStore ==
  /\ now = 0
  /\ jobs = <<>>
  /\ fingerprints = [h \in Fingerprints |-> [issue |-> NoTicket, created_at |-> NoTime]]
  /\ tickets = <<>>
  /\ stage = [i \in RowIds |-> "none"]
  /\ dreq = EmptyBag
  /\ completedAt = [h \in Fingerprints |-> NoTime]
  /\ claims = [i \in RowIds |-> 0]
  /\ thrown = {}

\* the analysis timeout is armed (config.claude.timeout > 0): it only adds
\* the timeout failure to what an analysis can end with
Init ==
  /\ rev \in Revs
  /\ dryRun \in BOOLEAN
  /\ (rev = 1 => dryRun = FALSE)
  /\ timeout = 1
  /\ InitStore
  /\ NoSession
  /\ NoText
  /\ NoIngest
  /\ NoPayload
  /\ running = TRUE

\* ------------------------------------------------------------- ingestion
\* fingerprints are digests with no meaning of their own: the first
\* delivery is named "f1", "f2" is a delivery that differs from an earlier one
Fresh(f) == f = "f1" \/ \E i \in JobIds(jobs) : jobs[i].fingerprint = "f1"

\* POST /webhook.  rev 1 (server.ts): insertJob, no look-up.
\* rev 2 (part_007): findExistingByFingerprint first; a duplicate is answered
\* with 200 and no row is written.
Webhook(f) ==
  /\ Len(jobs) < MaxJobs
  /\ Fresh(f)
  /\ IF rev = 1 \/ findExistingByFingerprint(jobs, fingerprints, f, now) = "none"
     THEN jobs' = insertJobStmt(jobs, f, FALSE, now)
     ELSE jobs' = jobs
  /\ UNCHANGED <<rev, dryRun, timeout, now, fingerprints, tickets, stage, dreq, claims, thrown, completedAt>>
  /\ UNCHANGED svars

\* POST /webhook/newrelic (rev 1): the payload is stored with
\* nerdGraphFailed set when the NerdGraph query threw
WebhookNewRelic(f, failed) ==
  /\ rev = 1
  /\ Len(jobs) < MaxJobs
  /\ Fresh(f)
  /\ jobs' = insertJobStmt(jobs, f, failed, now)
  /\ UNCHANGED <<rev, dryRun, timeout, now, fingerprints, tickets, stage, dreq, claims, thrown, completedAt>>
  /\ UNCHANGED svars

\* db.insertJobIfNotDuplicate(payload, fingerprint, windowDays)
InsertJobIfNotDuplicate(f) ==
  /\ Len(jobs) < MaxRows
  /\ Fresh(f)
  /\ jobs' = insertJobIfNotDuplicateTx(jobs, fingerprints, f, now)
  /\ UNCHANGED <<rev, dryRun, timeout, now, fingerprints, tickets, stage, dreq, claims, thrown, completedAt>>
  /\ UNCHANGED svars

\* ---------------------------------------------------------------- worker
\* What one processJobs invocation does from the head of its while loop to
\* its next await on claude.analyze, or to the end of the loop.  The
\* continuation of `await processJob(...)` is a microtask: no timer, request
\* or child-process callback runs between the end of one job and the claim
\* of the next.  A result is the store as left behind and the job held
\* (0 = the loop ended).
RECURSIVE processJobs(_, _, _, _)

\* catch (err) { db.markFailed(job.id, message) }: processJob returns
\* normally, so the while loop of processJobs goes on
catchBlockMissing(js, id, err) == [jobs |-> js, goes_on |-> FALSE]
catchBlock(js, id, err) == [jobs |-> markFailedStmt(js, id, err), goes_on |-> TRUE]

\* an exception thrown inside the try block of processJob for job id
Throw(js, fps, cl, th, id, err) ==
  LET c == catchBlock(js, id, err)
      th1 == th \cup {<<id, err>>}
  IN IF c.goes_on
     THEN processJobs(c.jobs, fps, cl, th1)
     ELSE {[jobs |-> c.jobs, claims |-> cl, thrown |-> th1, held |-> 0]}

\* the synchronous head of processJob: NerdGraph flag (rev 1), the
\* duplicate re-check (whose markDuplicate may throw), then claude.analyze
\* is awaited
processJob(js, fps, cl, th, id) ==
  LET existing == findFingerprintStmt(fps, js[id].fingerprint, now)
  IN IF rev = 1 /\ js[id].nerdGraphFailed
     THEN processJobs(markFailedStmt(js, id, "NerdGraph query failed"), fps, cl, th)
     ELSE IF existing # NoTicket
     THEN processJobs(markDuplicateStmt(js, id, existing), fps, cl, th)
            \cup Throw(js, fps, cl, th, id, "store error")
     ELSE {[jobs |-> js, claims |-> cl, thrown |-> th, held |-> id]}

\* while ((job = db.claimNextJob())) { await processJob(job, ...) }
processJobs(js, fps, cl, th) ==
  IF Claimable(js) = {}
  THEN {[jobs |-> js, claims |-> cl, thrown |-> th, held |-> 0]}
  ELSE UNION {processJob(claimNextJobStmt(js, id), fps, [cl EXCEPT ![id] = @ + 1], th, id) :
                id \in Claimable(js)}

\* the invocation goes on to one of the results; stg is the stage map without
\* the job it has just finished
Proceed(results, stg) ==
  \E r \in results :
    /\ jobs' = r.jobs
    /\ claims' = r.claims
    /\ thrown' = r.thrown
    /\ stage' = IF r.held = 0 THEN stg ELSE [stg EXCEPT ![r.held] = "analyzing"]

Release(id) == [stage EXCEPT ![id] = "none"]

\* setInterval(() => processJobs(...), pollInterval): every firing starts
\* a new invocation, whether or not an earlier one is still awaiting
TimerFire ==
  /\ running
  /\ Proceed(processJobs(jobs, fingerprints, claims, thrown), stage)
  /\ UNCHANGED <<rev, dryRun, timeout, now, fingerprints, tickets, dreq, completedAt>>
  /\ UNCHANGED svars

\* a poll interval longer than any job takes: the timer fires with no
\* invocation awaiting
TimerFireIdle ==
  /\ \A i \in RowIds : stage[i] = "none"
  /\ TimerFire

TeamError == IF rev = 1 THEN "Invalid team suggestion" ELSE "No teams available in Linear"

\* what processJob does once `await this.claude.analyze(...)` is over: a
\* rejection err goes to the catch block; a result goes on to resolveTeamId
\* and, in dry-run, to markCompletedDryRun, which may throw
AfterAnalysis(id, outcome, err) ==
  /\ outcome = "dryRunThrows" => (rev = 2 /\ dryRun)
  /\ CASE outcome = "exit" ->
            Proceed(Throw(jobs, fingerprints, claims, thrown, id, err), Release(id))
       [] outcome = "noteam" ->
            Proceed(Throw(jobs, fingerprints, claims, thrown, id, TeamError), Release(id))
       [] outcome = "dryRunThrows" ->
            Proceed(Throw(jobs, fingerprints, claims, thrown, id, "store error"), Release(id))
       [] outcome = "result" ->
            IF rev = 2 /\ dryRun
            THEN Proceed(processJobs(markCompletedDryRunStmt(jobs, id, 1),
                                     fingerprints, claims, thrown),
                         Release(id))
            ELSE /\ stage' = [stage EXCEPT ![id] = "creating"]
                 /\ UNCHANGED <<jobs, claims, thrown>>

\* claude.analyze settled: the agent exited (close callback) or could not be
\* spawned
AnalyzeSettles(id, outcome) ==
  /\ stage[id] = "analyzing"
  /\ AfterAnalysis(id, outcome, ExitError)
  /\ UNCHANGED <<rev, dryRun, timeout, now, fingerprints, tickets, dreq, completedAt>>
  /\ UNCHANGED svars

\* the manual timeout: armed only when timeout > 0
AnalyzeTimeout(id) ==
  /\ stage[id] = "analyzing"
  /\ timeout > 0
  /\ Proceed(Throw(jobs, fingerprints, claims, thrown, id, TimedOut), Release(id))
  /\ UNCHANGED <<rev, dryRun, timeout, now, fingerprints, tickets, dreq, completedAt>>
  /\ UNCHANGED svars

NewTicket(id) == Append(tickets, id)

\* the process is gone: every invocation and every request in flight with it
Down ==
  /\ stage' = [i \in RowIds |-> "none"]
  /\ dreq' = EmptyBag

\* linear.createIssue settled, then step 6 of processJob.
\* rev 1: db.insertFingerprint; db.markCompleted  (two statements)
\* rev 2: db.completeJobWithFingerprint            (one transaction)
CreateIssueSettles(id, outcome) ==
  LET h == jobs[id].fingerprint
      T == Len(tickets) + 1
      fp1 == insertFingerprintStmt(fingerprints, h, T, now)
      tx == completeJobWithFingerprintTx(jobs, fingerprints, id, h, T, 1, now)
  IN
  /\ stage[id] = "creating"
  /\ outcome # "throws" => Len(tickets) < MaxTickets
  /\ outcome \in {"fpThrows", "crashBetween"} => rev = 1
  /\ CASE outcome = "throws" ->
            /\ Proceed(Throw(jobs, fingerprints, claims, thrown, id,
                             "Linear API returned no issue"),
                       Release(id))
            /\ UNCHANGED <<fingerprints, tickets, dreq>>
       [] outcome = "ok" ->
            /\ tickets' = NewTicket(id)
            /\ IF rev = 1
               THEN /\ fingerprints' = fp1
                    /\ Proceed(processJobs(markCompletedStmt(jobs, id, T, 1),
                                           fp1, claims, thrown),
                               Release(id))
               ELSE /\ fingerprints' = tx.fingerprints
                    /\ Proceed(processJobs(tx.jobs, tx.fingerprints, claims, thrown),
                               Release(id))
            /\ UNCHANGED dreq
       [] outcome = "fpThrows" ->
            /\ tickets' = NewTicket(id)
            /\ Proceed(Throw(jobs, fingerprints, claims, thrown, id, "store error"),
                       Release(id))
            /\ UNCHANGED <<fingerprints, dreq>>
       [] outcome = "completeThrows" ->
            /\ tickets' = NewTicket(id)
            /\ fingerprints' = IF rev = 1 THEN fp1 ELSE fingerprints
            /\ Proceed(Throw(jobs, IF rev = 1 THEN fp1 ELSE fingerprints, claims, thrown,
                             id, "store error"),
                       Release(id))
            /\ UNCHANGED dreq
       [] outcome = "crashBetween" ->
            /\ tickets' = NewTicket(id)
            /\ fingerprints' = fp1
            /\ Down
            /\ UNCHANGED <<jobs, claims, thrown>>
       [] outcome = "crashAfterCreate" ->
            /\ tickets' = NewTicket(id)
            /\ Down
            /\ UNCHANGED <<jobs, fingerprints, claims, thrown>>
  /\ completedAt' = IF outcome = "ok" THEN [completedAt EXCEPT ![h] = now] ELSE completedAt
  /\ UNCHANGED <<rev, dryRun, timeout, now>>
  /\ UNCHANGED svars

\* ------------------------------------------------------------- dashboard
\* POST /api/dashboard/jobs/:id/create-issue up to the await on createIssue
DashCreateIssueAnyStatus(id) ==
  /\ rev = 2
  /\ BagCardinality(dreq) < MaxRequests
  /\ id \in JobIds(jobs)
  /\ jobs[id].linear_issue_id = NoTicket
  /\ dreq' = dreq (+) SetToBag({id})
  /\ UNCHANGED <<rev, dryRun, timeout, now, jobs, fingerprints, tickets, stage, claims, thrown, completedAt>>
  /\ UNCHANGED svars
DashCreateIssue(id) ==
  /\ rev = 2
  /\ BagCardinality(dreq) < MaxRequests
  /\ id \in JobIds(jobs)
  /\ jobs[id].status = "completed"
  /\ jobs[id].linear_issue_id = NoTicket
  /\ jobs[id].analysis # 0
  /\ dreq' = dreq (+) SetToBag({id})
  /\ UNCHANGED <<rev, dryRun, timeout, now, jobs, fingerprints, tickets, stage, claims, thrown, completedAt>>
  /\ UNCHANGED svars

\* the same request arriving while up to MaxRequests others await
\* createIssue: the handler holds no lock and keeps no list of the requests
\* in flight
DashCreateIssueConcurrent(id) ==
  /\ rev = 2
  /\ BagCardinality(dreq) <= MaxRequests
  /\ id \in JobIds(jobs)
  /\ jobs[id].status = "completed"
  /\ jobs[id].linear_issue_id = NoTicket
  /\ jobs[id].analysis # 0
  /\ dreq' = dreq (+) SetToBag({id})
  /\ UNCHANGED <<rev, dryRun, timeout, now, jobs, fingerprints, tickets, stage, claims, thrown, completedAt>>
  /\ UNCHANGED svars

\* createIssue settled: db.insertFingerprint; db.markCompleted; a throw is
\* answered with 500
DashIssueSettles(id, outcome) ==
  LET h == jobs[id].fingerprint
      T == Len(tickets) + 1
      fp1 == insertFingerprintStmt(fingerprints, h, T, now)
      answered == dreq (-) SetToBag({id})
  IN
  /\ BagIn(id, dreq)
  /\ outcome # "throws" => Len(tickets) < MaxTickets
  /\ CASE outcome = "throws" ->
            /\ dreq' = answered
            /\ UNCHANGED <<jobs, fingerprints, tickets, stage>>
       [] outcome = "ok" ->
            /\ tickets' = NewTicket(id)
            /\ fingerprints' = fp1
            /\ jobs' = markCompletedStmt(jobs, id, T, jobs[id].analysis)
            /\ dreq' = answered
            /\ UNCHANGED stage
       [] outcome = "fpThrows" ->
            /\ tickets' = NewTicket(id)
            /\ dreq' = answered
            /\ UNCHANGED <<jobs, fingerprints, stage>>
       [] outcome = "completeThrows" ->
            /\ tickets' = NewTicket(id)
            /\ fingerprints' = fp1
            /\ dreq' = answered
            /\ UNCHANGED <<jobs, stage>>
       [] outcome = "crashBetween" ->
            /\ tickets' = NewTicket(id)
            /\ fingerprints' = fp1
            /\ Down
            /\ UNCHANGED jobs
       [] outcome = "crashAfterCreate" ->
            /\ tickets' = NewTicket(id)
            /\ Down
            /\ UNCHANGED <<jobs, fingerprints>>
  /\ completedAt' = IF outcome = "ok" THEN [completedAt EXCEPT ![h] = now] ELSE completedAt
  /\ UNCHANGED <<rev, dryRun, timeout, now, claims, thrown>>
  /\ UNCHANGED svars

\* ------------------------------------------------------------ environment
\* the process dies and lineu serve is started again on the same database:
\* everything in memory is lost, the database file stays
Crash ==
  /\ \/ \E i \in RowIds : stage[i] # "none"
     \/ dreq # EmptyBag
  /\ Down
  /\ UNCHANGED <<rev, dryRun, timeout, now, jobs, fingerprints, tickets, claims, thrown, completedAt>>
  /\ UNCHANGED svars

\* time passes; only differences of timestamps are ever compared, so the
\* clock is started when the first job is stored
Tick ==
  /\ jobs # <<>>
  /\ now < MaxTime
  /\ now' = now + 1
  /\ UNCHANGED <<rev, dryRun, timeout, jobs, fingerprints, tickets, stage, dreq, claims, thrown, completedAt>>
  /\ UNCHANGED svars

\* ------------------------------------------- the analysis session, step by step
\* The continuation of the await in processJob is a microtask of the
\* callback that settles the promise: it runs before any other callback.
\* was: the promise before the callback; outcome: what processJob meets
\* after a result
Awaited(id, was, outcome) ==
  IF was.state # "pending" \/ promise'.state = "pending"
  THEN outcome = "exit" /\ UNCHANGED <<jobs, claims, thrown, stage>>
  ELSE IF promise'.state = "rejected"
  THEN outcome = "exit" /\ AfterAnalysis(id, "exit", promise'.error)
  ELSE outcome # "exit" /\ AfterAnalysis(id, outcome, "")

\* analyze(repoPath, payload, jobId): the injection screen, then the log
\* files, the spawn and the timer.  The payload of the job and what the
\* agent is going to write are chosen here.
Analyze(id) ==
  /\ stage[id] = "analyzing"
  /\ sjob = 0
  /\ sjob' = id
  /\ payload' \in Payloads
  /\ IF containsPromptInjection(payload')
     THEN /\ promise' = Rejected(Suspicious, "", <<>>)
          /\ AfterAnalysis(id, "exit", Suspicious)
          /\ UNCHANGED <<logs, logFiles, proc, timer, agent>>
     ELSE /\ logs' = TRUE
          /\ logFiles' = write(Unopened, "logStream")
          /\ proc' = "running"
          /\ timer' = IF timeout > 0 THEN "armed" ELSE "none"
          /\ agent' \in Streams
          /\ promise' = Pending
          /\ UNCHANGED <<jobs, claims, thrown, stage>>
  /\ UNCHANGED <<rev, dryRun, timeout, now, fingerprints, tickets, dreq, completedAt>>
  /\ UNCHANGED <<exitCode, fullOutput, lastResult, decoded, text, extracted>>
  /\ UNCHANGED <<ivars, fvars, wvars>>

\* proc.stdout.on('data'): the next n characters arrive as one chunk
Stdout(n) ==
  /\ proc \in {"running", "killed"}
  /\ n \in 1..Len(agent)
  /\ LET chunk == SubSeq(agent, 1, n)
     IN /\ fullOutput' = fullOutput \o chunk
        /\ lastResult' = track(lastResult, decodeChunk(chunk))
        /\ decoded' = decoded \o decodeChunk(chunk)
        /\ logFiles' = logChunk(logFiles, decodeChunk(chunk))
        /\ agent' = SubSeq(agent, n + 1, Len(agent))
  /\ UNCHANGED <<rev, dryRun, timeout, now, jobs, fingerprints, tickets, stage, dreq, completedAt,
                 claims, thrown>>
  /\ UNCHANGED <<sjob, payload, logs, proc, timer, exitCode, promise, text, extracted>>
  /\ UNCHANGED <<ivars, fvars, wvars>>

\* the timer set by setTimeout(..., this.timeout) fires
TimeoutFires ==
  /\ timer = "armed"
  /\ timer' = "fired"
  /\ proc' = IF proc = "running" THEN "killed" ELSE proc
  /\ logFiles' = logAndEnd(logFiles)
  /\ promise' = timeoutCallback(promise)
  /\ Awaited(sjob, promise, "exit")
  /\ UNCHANGED <<rev, dryRun, timeout, now, fingerprints, tickets, dreq, completedAt>>
  /\ UNCHANGED <<sjob, payload, logs, exitCode, agent, fullOutput, lastResult, decoded, text, extracted>>
  /\ UNCHANGED <<ivars, fvars, wvars>>

\* 'error': the process could not be spawned; the timer stays armed
SpawnError ==
  /\ proc = "running"
  /\ fullOutput = <<>>
  /\ proc' = "failed"
  /\ agent' = <<>>
  /\ logFiles' = logAndEnd(logFiles)
  /\ promise' = errorCallback(promise)
  /\ Awaited(sjob, promise, "exit")
  /\ UNCHANGED <<rev, dryRun, timeout, now, fingerprints, tickets, dreq, completedAt>>
  /\ UNCHANGED <<sjob, payload, logs, timer, exitCode, fullOutput, lastResult, decoded, text, extracted>>
  /\ UNCHANGED <<ivars, fvars, wvars>>

\* 'close': the process has ended and its stdout is drained
Close(code, outcome) ==
  /\ proc \in {"running", "killed", "failed"}
  /\ agent = <<>>
  /\ proc = "failed" => code # 0
  /\ proc' = "closed"
  /\ exitCode' = code
  /\ timer' = IF timer = "armed" THEN "cleared" ELSE timer
  /\ logFiles' = logAndEnd(logFiles)
  /\ promise' = closeCallback(promise, code, fullOutput, lastResult)
  /\ Awaited(sjob, promise, outcome)
  /\ UNCHANGED <<rev, dryRun, timeout, now, fingerprints, tickets, dreq, completedAt>>
  /\ UNCHANGED <<sjob, payload, logs, agent, fullOutput, lastResult, decoded, text, extracted>>
  /\ UNCHANGED <<ivars, fvars, wvars>>

\* ------------------------------------------------- extraction on its own
Extract ==
  /\ extracted = Null
  /\ extracted' = extractJsonFromText(text)
  /\ UNCHANGED <<rev, dryRun, timeout, now, jobs, fingerprints, tickets, stage, dreq, completedAt,
                 claims, thrown>>
  /\ UNCHANGED <<sjob, payload, logs, logFiles, proc, timer, exitCode, promise, agent, fullOutput, lastResult,
                 decoded, text>>
  /\ UNCHANGED <<ivars, fvars, wvars>>

AnalyzeOutcomes == {"exit", "noteam", "result", "dryRunThrows"}
IssueOutcomes == {"throws", "ok", "fpThrows", "completeThrows", "crashBetween", "crashAfterCreate"}

Next ==
  \/ \E f \in Fingerprints : Webhook(f)
  \/ \E f \in Fingerprints, failed \in BOOLEAN : WebhookNewRelic(f, failed)
  \/ TimerFire
  \/ \E id \in RowIds, o \in AnalyzeOutcomes : AnalyzeSettles(id, o)
  \/ \E id \in RowIds : AnalyzeTimeout(id)
  \/ \E id \in RowIds, o \in IssueOutcomes : CreateIssueSettles(id, o)
  \/ \E id \in RowIds : DashCreateIssue(id)
  \/ \E id \in RowIds, o \in IssueOutcomes : DashIssueSettles(id, o)
  \/ Crash
  \/ Tick

Spec == Init /\ [][Next]_vars

\* The job store with the enqueue transaction of db.ts in front of it and
\* the worker (rev 2, live) behind it, polling slowly
InitEnqueue ==
  /\ rev = 2
  /\ dryRun = FALSE
  /\ timeout = 1
  /\ InitStore
  /\ NoSession
  /\ NoText
  /\ NoIngest
  /\ NoPayload
  /\ running = TRUE

NextEnqueue ==
  \/ \E f \in Fingerprints : InsertJobIfNotDuplicate(f)
  \/ TimerFireIdle
  \/ \E id \in RowIds, o \in AnalyzeOutcomes : AnalyzeSettles(id, o)
  \/ \E id \in RowIds : AnalyzeTimeout(id)
  \/ \E id \in RowIds, o \in IssueOutcomes : CreateIssueSettles(id, o)
  \/ Tick

EnqueueSpec == InitEnqueue /\ [][NextEnqueue]_vars

\* No crash; the poll timer keeps firing, an armed analysis timeout fires
\* and the Linear call returns.  Whether the agent process ever exits is not
\* in the hands of the program.
InitFair ==
  /\ rev \in Revs
  /\ dryRun \in BOOLEAN
  /\ (rev = 1 => dryRun = FALSE)
  /\ timeout \in {0, 1}
  /\ InitStore
  /\ NoSession
  /\ NoText
  /\ NoIngest
  /\ NoPayload
  /\ running = TRUE

IssueOutcomesNoCrash == {"throws", "ok", "fpThrows", "completeThrows"}

NextFair ==
  \/ \E f \in Fingerprints : Webhook(f)
  \/ \E f \in Fingerprints, failed \in BOOLEAN : WebhookNewRelic(f, failed)
  \/ TimerFire
  \/ \E id \in RowIds, o \in AnalyzeOutcomes : AnalyzeSettles(id, o)
  \/ \E id \in RowIds : AnalyzeTimeout(id)
  \/ \E id \in RowIds, o \in IssueOutcomesNoCrash : CreateIssueSettles(id, o)
  \/ \E id \in RowIds : DashCreateIssue(id)
  \/ \E id \in RowIds, o \in IssueOutcomesNoCrash : DashIssueSettles(id, o)
  \/ Tick

FairSpec ==
  /\ InitFair
  /\ [][NextFair]_vars
  /\ WF_vars(TimerFire)
  /\ \A id \in RowIds : WF_vars(AnalyzeTimeout(id))
  /\ \A id \in RowIds : WF_vars(\E o \in IssueOutcomesNoCrash : CreateIssueSettles(id, o))

\* stop(): running = false; clearInterval(processInterval); the drains
\* that are awaiting are not told
Stop ==
  /\ running
  /\ running' = FALSE
  /\ UNCHANGED <<rev, dryRun, timeout, now, jobs, fingerprints, tickets, stage, dreq, completedAt,
                 claims, thrown>>
  /\ UNCHANGED <<avars, ivars, fvars>>

\* shutdown, after worker.stop() and server.close(): db.close();
\* process.exit(0)
Exit ==
  /\ ~running
  /\ Crash

\* The worker of either revision until it is stopped, and what its drains
\* do afterwards
NextStop ==
  \/ \E f \in Fingerprints : Webhook(f)
  \/ TimerFire
  \/ \E id \in RowIds, o \in AnalyzeOutcomes : AnalyzeSettles(id, o)
  \/ \E id \in RowIds : AnalyzeTimeout(id)
  \/ \E id \in RowIds, o \in IssueOutcomesNoCrash : CreateIssueSettles(id, o)
  \/ Stop
  \/ Exit
  \/ Tick

StopSpec == InitFair /\ [][NextStop]_vars

\* The dry-run worker and the dashboard, with requests that overlap; the
\* store does not throw
InitDash ==
  /\ rev = 2
  /\ dryRun = TRUE
  /\ timeout = 1
  /\ InitStore
  /\ NoSession
  /\ NoText
  /\ NoIngest
  /\ NoPayload
  /\ running = TRUE

NextDash ==
  \/ \E f \in Fingerprints : Webhook(f)
  \/ TimerFireIdle
  \/ \E id \in RowIds, o \in AnalyzeOutcomes : AnalyzeSettles(id, o)
  \/ \E id \in RowIds : DashCreateIssueConcurrent(id)
  \/ \E id \in RowIds, o \in {"throws", "ok"} : DashIssueSettles(id, o)
  \/ Tick

DashSpec == InitDash /\ [][NextDash]_vars

\* One job in the queue, the worker (either revision) and the analysis of
\* that job step by step: what the agent writes, how stdout is cut into
\* chunks, when the timer fires and how the process ends are all open.
InitSession ==
  /\ rev \in Revs
  /\ dryRun \in BOOLEAN
  /\ (rev = 1 => dryRun = FALSE)
  /\ timeout \in {0, 1}
  /\ now = 0
  /\ jobs = insertJobStmt(<<>>, "f1", FALSE, 0)
  /\ fingerprints = [h \in Fingerprints |-> [issue |-> NoTicket, created_at |-> NoTime]]
  /\ tickets = <<>>
  /\ stage = [i \in RowIds |-> "none"]
  /\ dreq = EmptyBag
  /\ completedAt = [h \in Fingerprints |-> NoTime]
  /\ claims = [i \in RowIds |-> 0]
  /\ thrown = {}
  /\ NoSession
  /\ NoText
  /\ NoIngest
  /\ NoPayload
  /\ running = TRUE

ExitCodes == {0, 1}

NextSession ==
  \/ TimerFireIdle
  \/ \E id \in RowIds : Analyze(id)
  \/ \E n \in 1..(3 * MaxLines) : Stdout(n)
  \/ TimeoutFires
  \/ SpawnError
  \/ \E code \in ExitCodes, o \in AnalyzeOutcomes : Close(code, o)
  \/ \E id \in RowIds, o \in IssueOutcomesNoCrash : CreateIssueSettles(id, o)

SessionSpec == InitSession /\ [][NextSession]_vars

\* The poll timer fires, analyze is called for a claimed job and an armed
\* timeout fires; whether the agent writes or exits is up to the agent.
SessionFairSpec ==
  /\ SessionSpec
  /\ WF_vars(TimerFireIdle)
  /\ WF_vars(\E id \in RowIds : Analyze(id))
  /\ WF_vars(TimeoutFires)

\* extractJsonFromText applied to every text of up to MaxTokens tokens
Tokens == {Prose, FenceOpen, FenceClose, BodyValid, BodyCategoryOnly, BodyInvalid}

Texts(n) == SeqsUpTo(Tokens, n)

InitText ==
  /\ rev = 2
  /\ dryRun = FALSE
  /\ timeout = 1
  /\ InitStore
  /\ NoSession
  /\ text \in Texts(MaxTokens)
  /\ extracted = Null
  /\ NoIngest
  /\ NoPayload
  /\ running = TRUE

NextText == Extract

TextSpec == InitText /\ [][NextText]_vars

\* extractJsonFromText applied to short texts that hold objects the brace
\* scan meets: without summary, with category not first, not parseable
ScanTokens ==
  {Prose, FenceOpen, FenceClose, BodyValid, BodyCategoryOnly, BodySummaryFirst, BodyOther,
   BodyBroken}

InitScan ==
  /\ rev = 2
  /\ dryRun = FALSE
  /\ timeout = 1
  /\ InitStore
  /\ NoSession
  /\ text \in SeqsUpTo(ScanTokens, MaxScan)
  /\ extracted = Null
  /\ NoIngest
  /\ NoPayload
  /\ running = TRUE

NextScan == Extract

ScanSpec == InitScan /\ [][NextScan]_vars

\* ------------------------------------------------- the job store on its own
\* db.insertJob(payload, fingerprint)
InsertJob(f) ==
  /\ Len(jobs) < MaxRows
  /\ jobs' = insertJobStmt(jobs, f, FALSE, now)
  /\ UNCHANGED <<rev, dryRun, timeout, now, fingerprints, tickets, stage, dreq, claims, thrown, completedAt>>
  /\ UNCHANGED svars

\* db.claimNextJob(): claimNextJobStmt.get()
ClaimNextJob ==
  /\ IF Claimable(jobs) = {}
     THEN /\ returned' = 0
          /\ UNCHANGED <<jobs, claims>>
     ELSE \E id \in Claimable(jobs) :
            /\ jobs' = claimNextJobStmt(jobs, id)
            /\ claims' = [claims EXCEPT ![id] = @ + 1]
            /\ returned' = id
  /\ UNCHANGED <<rev, dryRun, timeout, now, fingerprints, tickets, stage, dreq, thrown, completedAt>>
  /\ UNCHANGED <<avars, fvars, wvars, resp, accepted>>

\* db.markFailed(id, error) on a row claimNextJob has returned
MarkFailed(id) ==
  /\ id \in JobIds(jobs)
  /\ jobs[id].status = "processing"
  /\ jobs' = markFailedStmt(jobs, id, "Unknown error")
  /\ UNCHANGED <<rev, dryRun, timeout, now, fingerprints, tickets, stage, dreq, claims, thrown, completedAt>>
  /\ UNCHANGED svars

InitJobStore ==
  /\ rev = 2
  /\ dryRun = FALSE
  /\ timeout = 1
  /\ InitStore
  /\ NoSession
  /\ NoText
  /\ NoIngest
  /\ NoPayload
  /\ running = TRUE

NextJobStore ==
  \/ \E f \in Fingerprints : InsertJob(f)
  \/ ClaimNextJob
  \/ \E id \in RowIds : MarkFailed(id)
  \/ Tick

JobStoreSpec == InitJobStore /\ [][NextJobStore]_vars

\* app.post('/webhook'): the handler has no await, it runs in one piece
PostWebhook(body) ==
  LET f == resolveFingerprint(body)
      existing == IF rev = 1 THEN "none" ELSE findExistingByFingerprint(jobs, fingerprints, f, now)
  IN
  /\ accepted < MaxJobs
  /\ IF invalidBody(body)
     THEN /\ resp' = BadRequest(body)
          /\ UNCHANGED <<jobs, accepted>>
     ELSE /\ accepted' = accepted + 1
          /\ CASE existing = "completed" ->
                    /\ resp' = DuplicateOfIssue(body, f, findFingerprintStmt(fingerprints, f, now))
                    /\ UNCHANGED jobs
               [] existing = "job" ->
                    /\ resp' = DuplicateOfJob(body, f, findPendingJobByFingerprintStmt(jobs, f, now))
                    /\ UNCHANGED jobs
               [] existing = "none" ->
                    /\ jobs' = insertJobStmt(jobs, f, FALSE, now)
                    /\ resp' = Queued(body, Len(jobs) + 1, f)
  /\ UNCHANGED <<rev, dryRun, timeout, now, fingerprints, tickets, stage, dreq, claims, thrown, completedAt>>
  /\ UNCHANGED <<avars, fvars, wvars, returned>>

\* request bodies: nothing, null, a string, zero, {}, [], ["x"], and objects
\* with and without a fingerprint field
Flat(entries) == Payload(<<ObjNode(entries)>>, Ref(1))

FingerprintValues ==
  {JsonNull, StrVal(""), StrVal("   "), NumVal("0"), NumVal("7"), StrVal("dup-test"),
   StrVal(" padded ")}

Bodies ==
  { Payload(<<>>, Undefined), Payload(<<>>, JsonNull), Payload(<<>>, StrVal("abc")),
    Payload(<<>>, NumVal("0")), Flat(<<>>), Payload(<<ArrNode(<<>>)>>, Ref(1)),
    Payload(<<ArrNode(<<Entry("", StrVal("x"))>>)>>, Ref(1)),
    Flat(<<Entry("error", StrVal("E1"))>>),
    Flat(<<Entry("timestamp", StrVal("t1")), Entry("error", StrVal("E1"))>>),
    Flat(<<Entry("fingerprint", StrVal("dup-test")), Entry("error", StrVal("E2"))>>) }
    \cup {Flat(<<Entry("fingerprint", v), Entry("error", StrVal("E1"))>>) : v \in FingerprintValues}

\* every fingerprint a body of Bodies can be stored under
BodyFingerprints ==
  {External(v.v) : v \in FingerprintValues}
    \cup {generateFingerprint(b).fingerprint : b \in {b \in Bodies : ~invalidBody(b)}}

InitIngest ==
  /\ rev \in Revs
  /\ dryRun = FALSE
  /\ timeout = 1
  /\ now = 0
  /\ jobs = <<>>
  /\ fingerprints = [h \in BodyFingerprints |-> [issue |-> NoTicket, created_at |-> NoTime]]
  /\ tickets = <<>>
  /\ stage = [i \in RowIds |-> "none"]
  /\ dreq = EmptyBag
  /\ completedAt = [h \in BodyFingerprints |-> NoTime]
  /\ claims = [i \in RowIds |-> 0]
  /\ thrown = {}
  /\ NoSession
  /\ NoText
  /\ NoIngest
  /\ NoPayload
  /\ running = TRUE

\* the deliveries of one instant and the worker that drains them
NextIngest ==
  \/ \E body \in Bodies : PostWebhook(body)
  \/ TimerFireIdle
  \/ \E id \in RowIds, o \in {"exit", "result"} : AnalyzeSettles(id, o)
  \/ \E id \in RowIds, o \in {"throws", "ok"} : CreateIssueSettles(id, o)

IngestSpec == InitIngest /\ [][NextIngest]_vars

\* ---------------------------------------------- generateFingerprint on its own
\* the payloads: two nodes of up to two entries each, the first the root
Addrs == {1, 2}
FKeys == {"a", "b", "id"}
FVals == {StrVal("x")} \cup {Ref(a) : a \in Addrs}

DistinctKeys(entries) ==
  \A i, k \in 1..Len(entries) : entries[i].key = entries[k].key => i = k

ObjNodes ==
  {ObjNode(s) : s \in {e \in SeqsUpTo({Entry(k, v) : k \in FKeys, v \in FVals}, 2) : DistinctKeys(e)}}
ArrNodes == {ArrNode(s) : s \in SeqsUpTo({Entry("", v) : v \in FVals}, 2)}
SamplePayloads ==
  {Payload(<<n1, n2>>, Ref(1)) : n1 \in ObjNodes \cup ArrNodes, n2 \in ObjNodes \cup ArrNodes}

WithNode(pl, a, entries) ==
  Payload([pl.heap EXCEPT ![a] = ObjNode(entries)], pl.root)

Edit(pl) ==
  /\ calls = 0
  /\ edits < MaxEdits
  /\ edits' = edits + 1
  /\ hq' = pl
  /\ UNCHANGED <<hp, calls, fpP, fpQ, fpPrev>>
  /\ UNCHANGED <<rev, dryRun, timeout, now, jobs, fingerprints, tickets, stage, dreq, completedAt,
                 claims, thrown>>
  /\ UNCHANGED <<avars, ivars, wvars>>

\* q: two neighbouring keys of an object change places
Reorder(a, i) ==
  LET es == hq.heap[a].entries
  IN /\ hq.heap[a].kind = "obj"
     /\ i \in 1..(Len(es) - 1)
     /\ Edit(WithNode(hq, a, [es EXCEPT ![i] = es[i + 1], ![i + 1] = es[i]]))

\* q: a volatile field is given another value, or is added
SetVolatile(a, k, v) ==
  LET es == hq.heap[a].entries
      at == {i \in 1..Len(es) : es[i].key = k}
  IN /\ hq.heap[a].kind = "obj"
     /\ k \in DYNAMIC_FIELDS
     /\ \A i \in at : es[i].val # v
     /\ Edit(WithNode(hq, a, IF at = {} THEN Append(es, Entry(k, v))
                             ELSE [i \in 1..Len(es) |-> IF i \in at THEN Entry(k, v) ELSE es[i]]))

\* q: a volatile field is taken out
DropVolatile(a, k) ==
  LET es == hq.heap[a].entries
  IN /\ hq.heap[a].kind = "obj"
     /\ k \in DYNAMIC_FIELDS
     /\ \E i \in 1..Len(es) : es[i].key = k
     /\ Edit(WithNode(hq, a, SelectSeq(es, LAMBDA e : e.key # k)))

\* generateFingerprint(p) and generateFingerprint(q), called up to twice
Generate ==
  /\ calls \in {0, 1}
  /\ calls' = calls + 1
  /\ fpPrev' = fpP
  /\ fpP' = generateFingerprint(hp)
  /\ fpQ' = generateFingerprint(hq)
  /\ UNCHANGED <<hp, hq, edits>>
  /\ UNCHANGED <<rev, dryRun, timeout, now, jobs, fingerprints, tickets, stage, dreq, completedAt,
                 claims, thrown>>
  /\ UNCHANGED <<avars, ivars, wvars>>

InitFingerprint ==
  /\ rev = 2
  /\ dryRun = FALSE
  /\ timeout = 1
  /\ InitStore
  /\ NoSession
  /\ NoText
  /\ NoIngest
  /\ running = TRUE
  /\ hp \in SamplePayloads
  /\ hq = hp
  /\ edits = 0
  /\ calls = 0
  /\ fpP = NoDigest
  /\ fpQ = NoDigest
  /\ fpPrev = NoDigest

NextFingerprint ==
  \/ \E a \in Addrs, i \in 1..2 : Reorder(a, i)
  \/ \E a \in Addrs, k \in FKeys, v \in FVals \cup {StrVal("y")} : SetVolatile(a, k, v)
  \/ \E a \in Addrs, k \in FKeys : DropVolatile(a, k)
  \/ Generate

FingerprintSpec == InitFingerprint /\ [][NextFingerprint]_vars

TypeOK ==
  /\ Len(jobs) <= MaxJobs + MaxRows
  /\ Len(tickets) <= MaxTickets
  /\ now \in 0..MaxTime
  /\ stage \in [RowIds -> {"none", "analyzing", "creating"}]
  /\ \A i \in RowIds : stage[i] # "none" => (i \in JobIds(jobs) /\ jobs[i].status = "processing")
  /\ BagCardinality(dreq) <= MaxRequests

\* ------------------------------------------------------------ properties
Rows(st) == {i \in JobIds(jobs) : jobs[i].status = st}

\* C1: an ingestion of fingerprint f that arrives while a job of f is pending
\* or processing (inside the window, no ledger entry) inserts its row as
\* `duplicate`, so that two deliveries of an unresolved fingerprint end as one
\* pending and one duplicate row, never as two pending rows
C1_DedupAtomicity ==
  [][ Len(jobs') = Len(jobs) + 1 =>
        LET new == jobs'[Len(jobs')]
        IN (\E i \in JobIds(jobs) : /\ jobs[i].fingerprint = new.fingerprint
                                    /\ jobs[i].status \in Active
                                    /\ InWindow(jobs[i].created_at, now))
           => new.status = "duplicate" ]_vars

\* C2: claimNextJob never returns a row twice: a row has been returned
\* exactly once when it has left `pending`, and not at all before
C2_ClaimExclusive ==
  \A i \in JobIds(jobs) :
    /\ claims[i] <= 1
    /\ (claims[i] = 1) = (jobs[i].status # "pending")

\* C2 witness: two processJobs invocations called claimNextJob while both
\* were running and hold different rows, each returned once
C2_Witness ==
  \E i, k \in JobIds(jobs) : /\ i # k
                              /\ stage[i] # "none"
                              /\ stage[k] # "none"
                              /\ claims[i] = 1
                              /\ claims[k] = 1

\* C3: at most one job is `processing` in any reachable state
C3_SingleProcessing == Cardinality(Rows("processing")) <= 1

\* C4: the ledger and the jobs agree: the job whose completion wrote a ledger
\* entry is `completed`, and a `completed` job with a ticket reference has a
\* ledger entry for its fingerprint
C4_LedgerJobAgree ==
  /\ \A h \in Fingerprints :
       fingerprints[h].issue # NoTicket =>
         jobs[tickets[fingerprints[h].issue]].status = "completed"
  /\ \A i \in Rows("completed") :
       jobs[i].linear_issue_id # NoTicket =>
         fingerprints[jobs[i].fingerprint].issue # NoTicket

\* C5: inside one dedup window at most one ticket is created per fingerprint,
\* and no two jobs of one fingerprint are completed with different tickets
C5_OneTicketPerFingerprint ==
  now < Window =>
    /\ \A t1, t2 \in 1..Len(tickets) :
         t1 # t2 => jobs[tickets[t1]].fingerprint # jobs[tickets[t2]].fingerprint
    /\ \A i, k \in Rows("completed") :
         (jobs[i].fingerprint = jobs[k].fingerprint
            /\ jobs[i].linear_issue_id # NoTicket /\ jobs[k].linear_issue_id # NoTicket)
         => jobs[i].linear_issue_id = jobs[k].linear_issue_id

\* C6: an enqueue-if-not-duplicate of f made less than Window after any
\* completion of a job of f with a ticket (so also after the latest one)
\* inserts the new row as `duplicate` carrying a ticket reference
C6_EveryCompletionDedups ==
  [][ Len(jobs') = Len(jobs) + 1 =>
        LET new == jobs'[Len(jobs')]
        IN (/\ completedAt[new.fingerprint] # NoTime
            /\ InWindow(completedAt[new.fingerprint], now))
           => (new.status = "duplicate" /\ new.linear_identifier # NoTicket) ]_vars

SameOutcome(a, b) ==
  /\ a.status = b.status
  /\ a.error = b.error
  /\ a.analysis = b.analysis

SameTicket(a, b) ==
  /\ a.linear_issue_id = b.linear_issue_id
  /\ a.linear_identifier = b.linear_identifier

\* C7 as stated: once a job is completed, failed or duplicate, no step changes
\* its status, error text, analysis or ticket reference
C7_TerminalFrozen ==
  [][ \A i \in JobIds(jobs) :
        jobs[i].status \in Terminal =>
          (SameOutcome(jobs[i], jobs'[i]) /\ SameTicket(jobs[i], jobs'[i])) ]_vars

\* C7 amended: once a job is terminal no step changes its status, error text
\* or analysis; its ticket reference changes only when it is `completed` and
\* a dashboard create-issue request for it, admitted while it had no ticket,
\* records the issue it created
C7_TerminalFrozenButDashboard ==
  [][ \A i \in JobIds(jobs) :
        jobs[i].status \in Terminal =>
          /\ SameOutcome(jobs[i], jobs'[i])
          /\ \/ SameTicket(jobs[i], jobs'[i])
             \/ /\ jobs[i].status = "completed"
                /\ BagIn(i, dreq)
                /\ dreq' = dreq (-) SetToBag({i})
                /\ jobs'[i].linear_issue_id = Len(tickets')
                /\ jobs'[i].linear_identifier = Len(tickets')
                /\ Len(tickets') = Len(tickets) + 1 ]_vars

\* C7 witness: a dry-run job that the dashboard has given a ticket, next to
\* a failed job
C7_Witness ==
  /\ \E i \in Rows("completed") : /\ jobs[i].linear_issue_id # NoTicket
                                  /\ tickets[jobs[i].linear_issue_id] = i
                                  /\ dryRun
  /\ Rows("failed") # {}

\* the statuses row i goes through in one step: claimNextJob and the
\* statements that follow it in the same synchronous piece of processJobs
\* make up one step
StatusPath(i) ==
  IF claims'[i] > claims[i]
  THEN <<jobs[i].status, "processing", jobs'[i].status>>
  ELSE <<jobs[i].status, jobs'[i].status>>

Allowed(from, to) ==
  \/ from = to
  \/ from = "pending" /\ to = "processing"
  \/ from = "processing" /\ to \in Terminal

\* C8: a row is created `pending` or `duplicate`, and a status changes only
\* pending -> processing (by a claim) or processing -> completed | failed |
\* duplicate; a claim takes a `pending` row only
C8_Transitions ==
  [][ /\ \A i \in JobIds(jobs) :
           /\ \A n \in 1..(Len(StatusPath(i)) - 1) :
                Allowed(StatusPath(i)[n], StatusPath(i)[n + 1])
           /\ claims'[i] > claims[i] => jobs[i].status = "pending"
      /\ \A i \in JobIds(jobs') \ JobIds(jobs) :
           jobs'[i].status \in {"pending", "duplicate"}
      /\ Len(jobs') >= Len(jobs) ]_vars

\* C8 witness: every row has been claimed, and rows have ended `completed`
\* and `duplicate`
C8_Witness ==
  /\ Rows("duplicate") # {}
  /\ Rows("completed") # {}
  /\ \A i \in JobIds(jobs) : claims[i] = 1

Settled(i) == Len(jobs) >= i /\ jobs[i].status \in Terminal

\* C10: without a crash and with the poll timer firing, every job that is
\* inserted is eventually claimed and reaches completed, failed or duplicate
C10_EveryJobSettles ==
  \A i \in 1..MaxJobs : [](Len(jobs) >= i => <>Settled(i))

\* C11: when the timer fires while the agent process is running, the process
\* is sent SIGTERM and analyze fails with the timeout error; the job is
\* recorded failed with that error and nothing replaces it afterwards, the
\* later exit of the killed process included.  Once the process has closed
\* before the timer fired, the timer never fires.
C11_TimeoutWins ==
  [][ /\ (timer = "armed" /\ timer' = "fired" /\ proc = "running")
           => (proc' = "killed" /\ promise' = Rejected(TimedOut, "", <<>>))
      /\ (promise'.error = TimedOut)
           => (jobs'[sjob'].status = "failed" /\ jobs'[sjob'].error = TimedOut)
      /\ (promise.error = TimedOut) => (promise' = promise)
      /\ (proc' = "closed" /\ timer # "fired") => (timer' \notin {"armed", "fired"})
    ]_vars

\* the killed process has exited with a non-zero code after the timeout
C11_Witness ==
  /\ timer = "fired"
  /\ proc = "closed"
  /\ exitCode # 0
  /\ promise.error = TimedOut
  /\ jobs[sjob].error = TimedOut

\* C12: every call of analyze settles in the end, whatever the agent does
\* and whatever the configured timeout is, zero included.
C12_AnalyzeSettles ==
  [](promise.state = "pending" => <>(promise.state \in {"resolved", "rejected"}))

\* C13: a payload that matches an injection pattern makes analyze fail with
\* the security error with no log file opened and no process spawned; the
\* job is recorded failed with that error and gets no ticket.
C13_InjectionScreen ==
  (sjob # 0 /\ payload \cap INJECTION_PATTERNS # {})
    => /\ promise = Rejected(Suspicious, "", <<>>)
       /\ ~logs
       /\ proc = "none"
       /\ jobs[sjob].status = "failed"
       /\ jobs[sjob].error = Suspicious
       /\ \A t \in 1..Len(tickets) : tickets[t] # sjob

C13_Witness ==
  /\ sjob # 0
  /\ payload \cap INJECTION_PATTERNS # {}
  /\ payload \cap INJECTION_PATTERNS # payload
  /\ jobs[sjob].status = "failed"

\* the close callback runs and the promise is still pending
Closing == proc # "closed" /\ proc' = "closed" /\ promise.state = "pending"

\* C14: a non-zero exit code fails the analysis with the execution error
\* and the captured output, whatever result event was captured; with exit
\* code zero the outcome is what the extraction returns, and a failed
\* extraction is the parse failure.
C14_CloseDecides ==
  [][ Closing =>
        IF exitCode' # 0
        THEN promise' = Rejected(ExitError, "", fullOutput)
        ELSE IF parseStreamOutput(fullOutput, lastResult).ok
        THEN promise' = Resolved(parseStreamOutput(fullOutput, lastResult).value)
        ELSE promise' = Rejected(ParseFailed, parseStreamOutput(fullOutput, lastResult).error,
                                 fullOutput)
    ]_vars

\* a result was captured and could be extracted, and the exit code was not zero
C14_Witness ==
  /\ proc = "closed"
  /\ exitCode # 0
  /\ lastResult # Null
  /\ parseStreamOutput(fullOutput, lastResult).ok
  /\ promise = Rejected(ExitError, "", fullOutput)

\* C15: however stdout is cut into chunks, the decoded events and the last
\* result event are those of the same output fed as one chunk.
C15_ChunkingInvariant ==
  /\ decoded = decodeChunk(fullOutput)
  /\ lastResult = track(Null, decodeChunk(fullOutput))

\* the last event of type result among events (Null when there is none)
LatestResult(events) ==
  LET at == {k \in 1..Len(events) : events[k].type = "result"}
  IN IF at = {} THEN Null ELSE events[CHOOSE k \in at : \A j \in at : j <= k]

\* C16: the tracked result event is always the last decoded event of type
\* result, and it is the one the extraction is given when the process
\* closes with code zero.
C16_LastResultWins ==
  [][ /\ lastResult' = LatestResult(decoded')
      /\ (Closing /\ exitCode' = 0)
           => LET r == parseStreamOutput(fullOutput, LatestResult(decoded))
              IN promise' = IF r.ok THEN Resolved(r.value)
                            ELSE Rejected(ParseFailed, r.error, fullOutput)
    ]_vars

\* two different result events were decoded and the later one was used
C16_Witness ==
  /\ proc = "closed"
  /\ exitCode = 0
  /\ promise.state = "resolved"
  /\ \E i, j \in 1..Len(decoded) :
       /\ i < j
       /\ decoded[i].type = "result" /\ decoded[j].type = "result"
       /\ parseStreamOutput(fullOutput, decoded[i]) # parseStreamOutput(fullOutput, decoded[j])
       /\ promise.value = parseStreamOutput(fullOutput, decoded[j]).value

\* the order of the fallbacks as stated: (a) the object payload of the
\* result event, (b) the fenced blocks of its text payload, (c) a
\* brace-balanced object of the whole transcript, (d) failure
OrderedExtraction(out, last) ==
  IF last # Null /\ last.result.kind = "object"
       /\ last.result.body.category /\ last.result.body.summary
  THEN Ok(last.result.body)
  ELSE IF last # Null /\ last.result.kind = "string"
            /\ fencedBlocks(matchAll(last.result.text, 1)).ok
  THEN fencedBlocks(matchAll(last.result.text, 1))
  ELSE rawPatterns(Transcript(out), 1)

\* C17: the extraction returns what the ordered fallbacks (a) to (d) give;
\* it fails only after the whole transcript was scanned.
C17_OrderedFallback ==
  [][ (Closing /\ exitCode' = 0)
        => LET r == OrderedExtraction(fullOutput, lastResult)
           IN promise' = IF r.ok THEN Resolved(r.value)
                         ELSE Rejected(ParseFailed, r.error, fullOutput)
    ]_vars

\* the fenced blocks of a text as markdown reads them: a fence opens a
\* block, the next bare fence closes it, and ```json inside a block is content
RECURSIVE Blocks(_, _)
Blocks(txt, i) ==
  IF i > Len(txt) THEN {}
  ELSE IF ~HasBackticks(txt[i]) THEN Blocks(txt, i + 1)
  ELSE LET closes == {k \in (i + 1)..Len(txt) : txt[k] = FenceClose}
           c == Min(closes)
       IN IF closes = {} THEN {}
          ELSE (IF txt[i] = FenceOpen THEN {<<i, c>>} ELSE {}) \cup Blocks(txt, c + 1)

Qualifies(b) == b.tok = "body" /\ b.parses /\ b.category /\ b.summary

\* the blocks that hold one object with both fields
ValidBlocks(txt) == {b \in Blocks(txt, 1) : b[2] = b[1] + 2 /\ Qualifies(txt[b[1] + 1])}

\* C18: a text that holds a fenced block that parses and has category and
\* summary is extracted to such a block, wherever the malformed blocks and
\* the blocks without the fields stand.
C18_SkipsMalformedBlocks ==
  (extracted # Null /\ ValidBlocks(text) # {})
    => /\ extracted.ok
       /\ Qualifies(extracted.value)
       /\ \E k \in 2..Len(text) : text[k - 1] = FenceOpen /\ text[k] = extracted.value

\* a malformed block and a block without summary come before the valid one
C18_Witness ==
  /\ extracted # Null
  /\ extracted.ok
  /\ \E b \in ValidBlocks(text) :
       /\ \E m \in Blocks(text, 1) : m[2] < b[1] /\ m \notin ValidBlocks(text)
       /\ extracted.value = text[b[1] + 1]

\* a text holds something the extraction may return: a fenced object that
\* parses with both fields, or an object that starts with an opening
\* pattern, is balanced and parses
TextQualifies(txt) ==
  \/ \E k \in 2..(Len(txt) - 1) :
       txt[k - 1] = FenceOpen /\ Qualifies(txt[k]) /\ HasBackticks(txt[k + 1])
  \/ \E k \in 1..Len(txt) :
       txt[k].tok = "body" /\ txt[k].opening # 0 /\ txt[k].balanced /\ txt[k].parses

NothingQualifies(out, last) ==
  /\ ~(last # Null /\ last.result.kind = "object" /\ Qualifies(last.result.body))
  /\ ~(last # Null /\ last.result.kind = "string" /\ TextQualifies(last.result.text))
  /\ ~TextQualifies(Transcript(out))

NoJsonLine(out) == \A k \in 1..Len(out) : ~out[k].line.json

\* C19: when neither the result event nor the transcript holds a fenced
\* block or a balanced object that qualifies, the extraction fails with
\* "No valid JSON analysis found in output" and returns nothing; so it does
\* for a transcript without a line of JSON.
C19_NoResultFound ==
  [][ (Closing /\ exitCode' = 0
         /\ (NothingQualifies(fullOutput, lastResult) \/ NoJsonLine(fullOutput)))
        => promise' = Rejected(ParseFailed, NoResultFound, fullOutput)
    ]_vars

\* a result event was captured, its text holds an object cut short
C19_Witness ==
  /\ proc = "closed"
  /\ exitCode = 0
  /\ lastResult # Null
  /\ lastResult.result.text = <<BodyCut>>
  /\ NothingQualifies(fullOutput, lastResult)
  /\ promise = Rejected(ParseFailed, NoResultFound, fullOutput)

\* job i of fingerprint f has failed
FailedOf(js, f) == {i \in JobIds(js) : js[i].fingerprint = f /\ js[i].status = "failed"}

\* C20: a step that marks a job failed, and completes none, leaves the
\* fingerprints table as it was; and when a job of fingerprint f has failed, f has no entry in the
\* table and no job of f is pending or processing, the next
\* insertJobIfNotDuplicate(f) inserts a pending job.
C20_FailureDoesNotSuppress ==
  [][ /\ ( /\ (\E i \in JobIds(jobs) : jobs[i].status # "failed" /\ jobs'[i].status = "failed")
             /\ (\A k \in JobIds(jobs) : jobs'[k].status = "completed" => jobs[k].status = "completed") )
           => fingerprints' = fingerprints
      /\ \A f \in Fingerprints :
           ( /\ Len(jobs') = Len(jobs) + 1
             /\ jobs'[Len(jobs')].fingerprint = f
             /\ FailedOf(jobs, f) # {}
             /\ fingerprints[f].issue = NoTicket
             /\ \A i \in JobIds(jobs) : jobs[i].fingerprint = f => jobs[i].status \notin Active )
           => jobs'[Len(jobs')].status = "pending"
    ]_vars

\* a failed job of f1 and, after it, a pending job of f1
C20_Witness ==
  \E i, j \in JobIds(jobs) :
    /\ i < j
    /\ jobs[i].fingerprint = jobs[j].fingerprint
    /\ jobs[i].status = "failed"
    /\ jobs[j].status = "pending"

\* ---- POST /webhook and generateFingerprint
\* the request of this step passed the validation
Delivered == accepted' = accepted + 1

\* C21: when a job of fingerprint f is pending or processing and the ledger
\* has no entry for f, another delivery of f is answered `duplicate` with the
\* id of that first job, and no ticket reference is recorded for it
C21_SecondEnqueueIsDuplicate ==
  [][ Delivered =>
        LET f == resp'.fingerprint
            first == {i \in JobIds(jobs) : jobs[i].fingerprint = f /\ jobs[i].status \in Active}
        IN (first # {} /\ fingerprints[f].issue = NoTicket) =>
             /\ resp'.status = "duplicate"
             /\ resp'.existingJobId = Min(first)
             /\ (Len(jobs') > Len(jobs) => jobs'[Len(jobs')].linear_identifier = NoTicket) ]_vars

\* C23: every request that passes the validation inserts exactly one row,
\* `pending` when the answer is queued and `duplicate` when it is duplicate,
\* so that the jobs table has as many rows as deliveries were accepted
C23_OneRowPerDelivery ==
  [][ /\ Delivered =>
           /\ Len(jobs') = Len(jobs) + 1
           /\ resp'.status = "queued" => jobs'[Len(jobs')].status = "pending"
           /\ resp'.status = "duplicate" => jobs'[Len(jobs')].status = "duplicate"
      /\ Len(jobs') = accepted' ]_vars

\* the bodies C24 names: no body, a value that is no object, an object with no keys
NoBody(body) == body.root.t = "undefined"
NotAnObject(body) == body.root.t # "ref"
NoKeys(body) ==
  /\ body.root.t = "ref"
  /\ body.heap[body.root.ref].kind = "obj"
  /\ body.heap[body.root.ref].entries = <<>>

\* C24: a request whose body is absent, is not an object or is an object with
\* no keys is answered with the validation error (400) in the same step, and
\* the jobs table and the ledger stay as they were
C24_InvalidBodyRejected ==
  [][ (resp' # resp /\ (NoBody(resp'.request) \/ NotAnObject(resp'.request) \/ NoKeys(resp'.request)))
        => /\ resp'.code = 400
           /\ resp'.status = "error"
           /\ jobs' = jobs
           /\ fingerprints' = fingerprints
           /\ accepted' = accepted ]_vars

\* C24 witness: {} was rejected while the table held a job and the ledger an
\* entry
C24_Witness ==
  /\ resp.code = 400
  /\ NoKeys(resp.request)
  /\ jobs # <<>>
  /\ \E h \in DOMAIN fingerprints : fingerprints[h].issue # NoTicket

NonEmptyAfterTrim(v) == v.t = "str" /\ trim(v.v) # ""

\* C26: the job's fingerprint is the caller's value v exactly when v is a
\* string that is not empty after trimming; for every other v it is the
\* digest computed from the payload
C26_ExternalFingerprintRule ==
  [][ Delivered =>
        LET v == Get(resp'.request, "fingerprint")
            used == resp'.fingerprint
        IN /\ (used = External(v.v)) <=> NonEmptyAfterTrim(v)
           /\ ~NonEmptyAfterTrim(v) => used = generateFingerprint(resp'.request).fingerprint
           /\ Len(jobs') > Len(jobs) => jobs'[Len(jobs')].fingerprint = used ]_vars

\* C25: payloads that differ only in volatile fields (their values or their
\* presence, at any depth) or in the order of object keys have the same
\* fingerprint
C25_Determinism == calls > 0 => fpP = fpQ

\* node a holds a reference to node b
Edge(pl, a, b) ==
  \E i \in 1..Len(pl.heap[a].entries) : pl.heap[a].entries[i].val = Ref(b)

\* b is reached from a in one to n steps
RECURSIVE Reaches(_, _, _, _)
Reaches(pl, a, b, n) ==
  /\ n > 0
  /\ \/ Edge(pl, a, b)
     \/ \E c \in 1..Len(pl.heap) : Edge(pl, a, c) /\ Reaches(pl, c, b, n - 1)

\* the payload holds a reference cycle that its root leads to
Cyclic(pl) ==
  \E a \in 1..Len(pl.heap) :
    /\ (pl.root = Ref(a) \/ (pl.root.t = "ref" /\ Reaches(pl, pl.root.ref, a, Len(pl.heap))))
    /\ Reaches(pl, a, a, Len(pl.heap))

\* C27: on a payload with a reference cycle generateFingerprint returns a
\* digest (it neither throws nor overflows the stack), and a second call on
\* the same payload returns the same digest
C27_CycleSafe ==
  /\ (calls > 0 /\ Cyclic(hp)) => (fpP.ok /\ (calls = 2 => fpPrev = fpP))
  /\ (calls > 0 /\ Cyclic(hq)) => fpQ.ok

\* C27 witness: two nodes that refer to each other, fingerprinted twice, the
\* cycle marker in the text that was hashed
C27_Witness ==
  /\ calls = 2
  /\ Edge(hp, 1, 2) /\ Edge(hp, 2, 1)
  /\ fpP.ok /\ fpPrev = fpP
  /\ \E i \in 1..Len(fpP.fingerprint.sha256) : fpP.fingerprint.sha256[i] = <<"str", "[circular]">>

\* ---- the job store and the worker, again
\* C22: claimNextJob returns a pending job than which no pending job was
\* created earlier and sets exactly that job to `processing`, every other
\* job staying as it was; with no job pending it returns nothing and changes
\* no job
C22_ClaimOldestPending ==
  [][ /\ claims' # claims =>
           \E id \in JobIds(jobs) :
             /\ returned' = id
             /\ jobs[id].status = "pending"
             /\ \A k \in JobIds(jobs) :
                  jobs[k].status = "pending" => jobs[k].created_at >= jobs[id].created_at
             /\ jobs' = [jobs EXCEPT ![id].status = "processing"]
             /\ claims' = [claims EXCEPT ![id] = @ + 1]
      /\ (returned' # returned /\ returned' # 0) => claims' # claims
      /\ (returned' # returned /\ returned' = 0) =>
           /\ \A k \in JobIds(jobs) : jobs[k].status # "pending"
           /\ jobs' = jobs ]_vars

\* C22 witness: the older of two pending jobs was returned and is
\* `processing`, the younger is still `pending`
C22_Witness ==
  /\ returned \in JobIds(jobs)
  /\ jobs[returned].status = "processing"
  /\ \E k \in JobIds(jobs) :
       jobs[k].status = "pending" /\ jobs[k].created_at > jobs[returned].created_at

\* a job is `processing` and no invocation of processJobs holds it: the
\* process that claimed it is gone
Orphan(id) == id \in JobIds(jobs) /\ jobs[id].status = "processing" /\ stage[id] = "none"

\* C28: a job that was `processing` when the process died stays `processing`
\* for ever: claimNextJob does not return it again and nothing marks it
\* terminal or `pending`
C28_StuckAfterCrash ==
  [][ \A id \in RowIds :
        Orphan(id) => /\ jobs'[id] = jobs[id]
                      /\ stage'[id] = "none"
                      /\ claims'[id] = claims[id] ]_vars

\* C28 witness: after the restart the worker holds another job while the
\* job of the crash is still `processing`
C28_Witness ==
  \E id, k \in RowIds : Orphan(id) /\ k # id /\ stage[k] # "none" /\ claims[id] = 1

\* the ledger resolves h inside the window, as findFingerprint reads it
LedgerHit(fps, h, t) == fps[h].issue # NoTicket /\ fps[h].created_at > t - Window

NoTicketFor(tk, id) == \A t \in 1..Len(tk) : tk[t] # id

\* no entry of the ledger holds a ticket made for job id
NoLedgerEntryFor(fps, tk, id) ==
  \A h \in DOMAIN fps : fps[h].issue # NoTicket => tk[fps[h].issue] # id

\* the jobs claimed in a step whose fingerprint the ledger resolves when
\* processJob looks it up
Rechecked(id) ==
  /\ id \in JobIds(jobs')
  /\ claims'[id] > claims[id]
  /\ LedgerHit(fingerprints', jobs'[id].fingerprint, now)

\* C29 as stated: a claimed job whose fingerprint has a ledger entry inside
\* the window is marked `duplicate` with the ledger's ticket reference; the
\* orchestrator is not invoked for it, no ticket is created for it and the
\* ledger is not written for it
C29_RecheckMarksDuplicate ==
  [][ \A id \in RowIds :
        Rechecked(id) =>
          /\ jobs'[id].status = "duplicate"
          /\ jobs'[id].linear_identifier = fingerprints'[jobs'[id].fingerprint].issue
          /\ stage'[id] = "none"
          /\ NoTicketFor(tickets', id)
          /\ NoLedgerEntryFor(fingerprints', tickets', id) ]_vars

\* C29 amended: such a job is marked `duplicate` with the ledger's ticket
\* reference, or `failed` when its payload carries nerdGraphFailed or the
\* store throws on the update; in each case the orchestrator is not invoked
\* for it, no ticket is created for it and no ledger entry is written for it
C29_RecheckEndsJob ==
  [][ \A id \in RowIds :
        /\ Rechecked(id) =>
             /\ \/ /\ jobs'[id].status = "duplicate"
                    /\ jobs'[id].linear_identifier = fingerprints'[jobs'[id].fingerprint].issue
                 \/ /\ jobs'[id].status = "failed"
                    /\ jobs'[id].error \in {"NerdGraph query failed", "store error"}
                    /\ jobs'[id].error = "NerdGraph query failed" => jobs[id].nerdGraphFailed
             /\ stage'[id] = "none"
             /\ NoTicketFor(tickets', id)
             /\ NoLedgerEntryFor(fingerprints', tickets', id)
        /\ (id \in JobIds(jobs') /\ jobs'[id].status = "duplicate") =>
             /\ stage'[id] = "none"
             /\ NoTicketFor(tickets', id)
             /\ ~BagIn(id, dreq') ]_vars

\* C29 witness: a job was claimed once and marked `duplicate` with the
\* ticket the ledger holds for its fingerprint
C29_Witness ==
  \E id \in JobIds(jobs) :
    /\ jobs[id].status = "duplicate"
    /\ claims[id] = 1
    /\ jobs[id].linear_identifier # NoTicket
    /\ jobs[id].linear_identifier = fingerprints[jobs[id].fingerprint].issue
    /\ NoTicketFor(tickets, id)

\* what the catch block of processJob is handed when the analysis fails or
\* the team does not resolve
AnalysisErrors ==
  {ExitError, TimedOut, Suspicious, "Invalid team suggestion", "No teams available in Linear"}

\* C30: a ticket is created for a job only after its analysis succeeded and
\* its team resolved; a job whose analysis failed or whose team did not
\* resolve gets no ticket and ends `failed`; and a job a ticket was created
\* for ends `completed` with that ticket's reference
C30_TicketIffAnalysed ==
  [][ /\ Len(tickets') > Len(tickets) =>
           LET id == tickets'[Len(tickets')]
           IN stage[id] = "creating" \/ (BagIn(id, dreq) /\ jobs[id].analysis # 0)
      /\ \A id \in RowIds, err \in AnalysisErrors :
           (<<id, err>> \in thrown' /\ <<id, err>> \notin thrown)
             => (jobs'[id].status = "failed" /\ NoTicketFor(tickets', id))
      /\ \A t \in 1..Len(tickets') :
           jobs'[tickets'[t]].status \in Terminal =>
             (jobs'[tickets'[t]].status = "completed" /\ jobs'[tickets'[t]].linear_issue_id = t) ]_vars

\* ---- the analysis session, again
\* what stands after the last "\n" of the output is one whole line
EndsUnterminated(out) ==
  /\ Len(out) >= 2
  /\ out[Len(out) - 1].part = 1 /\ out[Len(out)].part = 2
  /\ out[Len(out) - 1].line = out[Len(out)].line

FinalFragment(out) == out[Len(out)].line

\* C31: when the process exits and what stands after the last line
\* terminator of its output is a complete result event, that event is the
\* result the extraction is given
C31_FinalFragmentDecoded ==
  [][ ( /\ Closing /\ exitCode' = 0
        /\ EndsUnterminated(fullOutput)
        /\ FinalFragment(fullOutput).json
        /\ FinalFragment(fullOutput).type = "result" )
        => /\ lastResult = FinalFragment(fullOutput)
           /\ LET r == parseStreamOutput(fullOutput, FinalFragment(fullOutput))
              IN promise' = IF r.ok THEN Resolved(r.value)
                            ELSE Rejected(ParseFailed, r.error, fullOutput)
    ]_vars

\* ---- extractJsonFromText, again
\* the objects of a text
Objects(txt) == {k \in 1..Len(txt) : txt[k].tok = "body"}

FencedStep(txt) == fencedBlocks(matchAll(txt, 1))

\* the fenced step and the brace step, as C32 and its amendment have them
StepsOf(txt, res) ==
  /\ FencedStep(txt).ok =>
        /\ res = FencedStep(txt)
        /\ res.value.category /\ res.value.summary
  /\ (~FencedStep(txt).ok /\ res.ok) =>
        /\ res.value.parses /\ res.value.opening # 0
        /\ \E k \in Objects(txt) : txt[k] = res.value
  /\ \A k \in Objects(txt) :
        (Objects(txt) = {k} /\ ~FencedStep(txt).ok /\ txt[k].parses /\ txt[k].opening # 0)
          => res = Ok(txt[k])

\* C32 as stated: the fenced step returns a block only when it has category
\* and summary; the brace step returns a parseable object that starts with
\* an opening pattern of category, with or without summary; and a text whose
\* only object starts with no opening pattern makes the extraction fail
C32_Asymmetry ==
  extracted # Null =>
    /\ StepsOf(text, extracted)
    /\ \A k \in Objects(text) :
         (Objects(text) = {k} /\ text[k].opening = 0) => ~extracted.ok

\* C32 amended: ... and a text whose only object starts with no opening
\* pattern makes the extraction fail unless that object is a fenced block
\* that parses and has category and summary
C32_AsymmetryUnlessFenced ==
  extracted # Null =>
    /\ StepsOf(text, extracted)
    /\ \A k \in Objects(text) :
         (Objects(text) = {k} /\ text[k].opening = 0 /\ ~FencedStep(text).ok) => ~extracted.ok

\* C32 witness: a fenced block without summary, passed over by the fenced
\* step and returned by the brace step
C32_Witness ==
  /\ text = <<FenceOpen, BodyCategoryOnly, FenceClose>>
  /\ ~FencedStep(text).ok
  /\ extracted = Ok(BodyCategoryOnly)

\* C33: when the text holds a brace-balanced object that parses and starts
\* with an opening pattern of category, the brace step returns an object,
\* wherever that object stands and whatever occurrences of the patterns
\* stand before it
C33_BraceScanFindsObject ==
  extracted # Null =>
    ( (\E k \in Objects(text) : text[k].balanced /\ text[k].parses /\ text[k].opening # 0)
        => /\ rawPatterns(text, 1).ok
           /\ extracted.ok )

\* ---- the job store, again
\* C34: a job has a processed timestamp exactly when its status is
\* completed, failed or duplicate: a pending job and a claimed job have
\* none, and a job made terminal, or inserted as duplicate, has one
C34_ProcessedIffTerminal ==
  \A id \in JobIds(jobs) : jobs[id].processed_at <=> jobs[id].status \in Terminal

\* C34 witness: a job inserted as duplicate and never claimed, next to a
\* completed job and a job that is being processed
C34_Witness ==
  \E i, j, k \in JobIds(jobs) :
    /\ jobs[i].status = "duplicate" /\ claims[i] = 0 /\ jobs[i].processed_at
    /\ jobs[j].status = "completed" /\ jobs[j].processed_at
    /\ jobs[k].status = "processing" /\ ~jobs[k].processed_at

\* ---- the log files of a session
\* C35: in any order of the timeout, error, close and data callbacks of a
\* session, end() is called at most once on each of the two log files,
\* exactly once by the time the process has closed, and nothing is written
\* to a log file after its end()
C35_LogsClosedOnce ==
  \A f \in LogFiles :
    /\ logFiles[f].ends <= 1
    /\ ~logFiles[f].late
    /\ (logs /\ proc = "closed") => logFiles[f].ends = 1

\* ---- stop()
\* C36: once stop() has been called no job is claimed any more: a job in
\* flight may finish, but no drain calls claimNextJob again, the drain that
\* was awaiting when stop() was called included
C36_NoClaimAfterStop ==
  [][ ~running => claims' = claims ]_vars

\* ---- create-issue of the dashboard
\* the tickets created for job id
TicketsOf(id) == {t \in 1..Len(tickets) : tickets[t] = id}

\* C37: for a job completed in dry-run, create-issue requests that overlap
\* create at most one ticket, and once they are answered the ticket
\* reference of the job and the ledger entry of its fingerprint name it
C37_OneTicketPerDryRunJob ==
  \A id \in JobIds(jobs) :
    /\ Cardinality(TicketsOf(id)) <= 1
    /\ \A t \in TicketsOf(id) :
         ~BagIn(id, dreq) =>
           /\ jobs[id].linear_issue_id = t
           /\ fingerprints[jobs[id].fingerprint].issue = t
====
